---- MODULE Spec2Model ----
(***************************************************************************)
(* A model of the bblocks.cc task runtime (worker mailboxes, round-robin   *)
(* dispatch, barriers) and of the TCP channel's write and read paths.      *)
(***************************************************************************)
EXTENDS Integers, Sequences, FiniteSets, TLC

\* ------------------------------------------------------------------ bounds
\* Hardware cores reported by SysConf::NumCores(); Start(ncpu) needs ncpu <= NumCores.
NumCores == 2
\* User routines handed to the pool in one run.
MaxRoutines == 3
\* User routines handed to the pool in a run that also holds a barrier.
MaxQueued == 2
\* nextTh_ and nextId_ are uint32_t: a value is kept as two 16-bit halves,
\* [hi, lo] standing for hi * 65536 + lo, so that it wraps at 2^32.
Half == 65536
U32Zero == [hi |-> 0, lo |-> 0]
U32Inc(v) == IF v.lo + 1 < Half THEN [v EXCEPT !.lo = @ + 1]
             ELSE [hi |-> (v.hi + 1) % Half, lo |-> 0]
U32Mod(v, n) == (((v.hi % n) * (Half % n)) + (v.lo % n)) % n

\* Slots of threads_ ; the pool started with n workers uses 0 .. n-1.
Workers == 0 .. (NumCores - 1)
\* Two threads outside the pool that call into it, numbered after the workers.
Clients == NumCores .. (NumCores + 1)
Threads == Clients \cup Workers
\* Objects deriving from NonBlockingLogic.
Logics == {"L1", "L2"}

\* ---------------------------------------------------------------- routines
\* A ThreadRoutine is known by its address only; k tells what was allocated.
URoutine(n) == [k |-> "u", n |-> n]
HelperRoutine(i) == [k |-> "h", n |-> i]
BarrierCb == [k |-> "f", n |-> 0]
NoRoutine == [k |-> "none", n |-> 0]

VARIABLES
    \* NonBlockingThreadPool
    nthreads,       \* threads_.size()
    nextTh_,        \* round-robin cursor
    q,              \* q[w]: the InList of worker w's InQueue, q[w][1] is head_
    wpc,            \* worker position: "off", "pop", "wait", "run", "sched"
    cur,            \* the routine a worker popped and is running
    spc,            \* a thread's position inside Schedule / ScheduleBarrier
    sreg,           \* its locals: the routine r, the cursor value t, the loop index i
    br,             \* the BarrierRoutine object: cb_ and pendingCalls_
    nalloc,         \* user routines constructed so far
    owner,          \* receiver of a member-function routine ("none": no affinity)
    how,            \* the overload that constructed the routine
    thAffinity_,    \* NonBlockingLogic::thAffinity_ , -1 before construction
    nextId_,        \* RRCpuId::nextId_
    \* history
    pushed,         \* pushed[w]: routines in the order Push appended them
    ran,            \* ran[w]: routines in the order worker w started them
    finished,       \* routines whose Run returned
    snap,           \* snap[n]: routines queued when the member overload was called for n
    bsnap,          \* routines queued when ScheduleBarrier(ThreadRoutine *) was called
    ndispatch,      \* times BarrierRoutine::Run handed cb_ to Schedule
    \* TCPChannel (the channel writes, its peer reads what it wrote)
    wbuf_,          \* the write backlog: buffers, each a sequence of bytes
    wdrain,         \* WriteDataToSocket in progress under lock_: its caller,
                    \* isasync and bytesWritten
    wire,           \* bytes the socket took that the peer has not read yet
    rctx_,          \* the peer's read context: buffer size, bytes read, handler
    rdrain,         \* ReadDataFromSocket in progress under the peer's lock_
    nfail,          \* read() and writev() calls that failed other than by EAGAIN
    \* history
    enq,            \* bytes of the buffers EnqueueWrite accepted, in call order
    sent,           \* bytes writev handed to the socket
    delivered,      \* bytes of the completed reads, in completion order
    rdone,          \* the read the last step completed: buffer size, bytes, by Read itself
    rcb,            \* the read-done callback the last step made: status, buffer size, bytes
    wcb,            \* write-done callbacks the last step made: status, size of the buffer
    ret,            \* EnqueueWrite calls that returned, and what the last one returned
    hcalls,         \* times the handler of the latest Read was called
    rerr,           \* a read() of the latest Read failed other than by EAGAIN
    \* TCPChannel and the demultiplexer: registration and unregistration
    client_,        \* the channel's client: its handle and its unregister-done function
    registered,     \* the channel's fd is in the demultiplexer's set
    inEdge,         \* readiness for EPOLLIN arose that epoll_wait has not reported yet
    nev,            \* HandleFdEvent routines the demultiplexer made
    nrd,            \* read-done routines made by Wakeup
    bdc,            \* BarrierDone's local copy c of client_
    \* history
    undone,         \* times the unregister-done function was called
    atDone,         \* the channel as it was when the unregister-done function was called
    late,           \* a read-done callback or HandleFdEvent ran after unregister-done
    \* TimeKeeper
    now,            \* CLOCK_MONOTONIC, in milliseconds
    timers_,        \* the multiset of TimerEvent: time_ and r_
    armed,          \* the expiration the timerfd is set to (NoTime: disarmed)
    tpc,            \* the timekeeper's thread: "none", "read", "woken", "due"
    nt,             \* ScheduleIn calls made
    \* history
    deadline,       \* deadline[n]: the clock at the n-th ScheduleIn call plus its ms
    texec,          \* the timed routines in the order they started, with the clock then
    \* NonBlockingThreadPool: Shutdown and Wait
    shut,           \* Shutdown's position ("no", "stop", "join", "done") and its thread index
    wt,             \* the thread that calls Wait: "idle", "blocked", "returned"
    modZero,        \* a Schedule call computed nextTh_++ % threads_.size() with no thread
    \* TCPServer
    listening,      \* Listen was called: sockfd_ listens and is in the demultiplexer's set
    backlog,        \* connections pending on sockfd_
    lEdge,          \* readiness of sockfd_ arose that epoll_wait has not reported yet
    nacc,           \* HandleFdEvent routines the demultiplexer made for sockfd_
    \* TCPConnector
    nconn,          \* Connect calls made; the n-th one uses fd n
    clients_,       \* fds with a pending-client entry
    epollFds,       \* the connector's fds in the demultiplexer's set
    cready,         \* cready[fd]: events the kernel raised that epoll_wait has not reported
    cev,            \* cev[fd]: events handed to the HandleFdEvent routine of fd
    nch,            \* TCPChannel objects constructed
    \* history
    arrived,        \* connections that arrived at sockfd_
    csched,         \* results handed to Schedule: source, status, channel, events, and
                    \* whether the fd was still in the set and in clients_
    cdone,          \* results delivered to the client, as indexes of csched
    \* file descriptors, the barrier's fan-out and NonBlockingThread::Stop
    openFds,        \* the connector's socket fds that are open
    closes,         \* ::close(fd_) calls TCPChannel::Close has made
    fsnap,          \* the routines queued when the last helper is pushed
    exitMain_,      \* exitMain_[w] of worker w
    stopped,        \* stopped[w]: a direct Stop call on w ("no", "join", "done")
    aborted,        \* an INVARIANT of Stop failed: the process is gone
    rr,             \* one thread's Schedule calls on their own: the size of threads_,
                    \* the cursor nextTh_ and the workers chosen so far
    bcast,          \* condExit_.Broadcast() has been called
    cshut,          \* TCPConnector::Shutdown: "no", "run" (holds lock_), "done"
    il              \* InList objects and their elements as the pointers they hold:
                    \* head_ and tail_ of each list, next_ and prev_ of each element;
                    \* history: the elements pushed to a list and not popped, and the
                    \* numbers of Push and Pop calls

poolVars == <<nthreads, nextTh_, q, wpc, cur, spc, sreg, br, nalloc, owner, how,
              thAffinity_, nextId_, pushed, ran, finished, snap, bsnap,
              ndispatch>>

chanVars == <<wbuf_, wdrain, wire, rctx_, rdrain, nfail, enq, sent, delivered, rdone, rcb,
              wcb, ret, hcalls, rerr>>

unregVars == <<client_, registered, inEdge, nev, nrd, bdc, undone, atDone, late>>

timerVars == <<now, timers_, armed, tpc, nt, deadline, texec>>

\* the variables of the other parts of the runtime
lifeVars == <<shut, wt, modZero>>

netVars == <<listening, backlog, lEdge, nacc, nconn, clients_, epollFds, cready, cev, nch,
            arrived, csched, cdone>>

sysVars == <<openFds, closes, fsnap, exitMain_, stopped, aborted, rr, il, bcast, cshut>>

extVars == <<unregVars, timerVars, lifeVars, netVars, sysVars>>

vars == <<poolVars, chanVars, extVars>>

\* ------------------------------------------------------------------ InList
\* Push links t in front of head_ ; Pop unlinks tail_ and returns it.
InListPush(l, t) == <<t>> \o l
InListPopHead(l) == [t |-> l[1], rest |-> SubSeq(l, 2, Len(l))]
InListPop(l) == [t |-> l[Len(l)], rest |-> SubSeq(l, 1, Len(l) - 1)]
InListIsEmpty(l) == l = <<>>

\* The same list with its pointers: elements are 1 .. ILElems, NULL is 0.
ILElems == 3
ILLists == 2
\* Push calls on one list in one run.
ILCalls == 3
Null == 0

\* InListElement() and InList(): every pointer is NULL
InListNew ==
    [head_ |-> [l \in 1 .. ILLists |-> Null], tail_ |-> [l \in 1 .. ILLists |-> Null],
     next_ |-> [e \in 1 .. ILElems |-> Null], prev_ |-> [e \in 1 .. ILElems |-> Null],
     in |-> [l \in 1 .. ILLists |-> {}],
     npush |-> [l \in 1 .. ILLists |-> 0], npop |-> [l \in 1 .. ILLists |-> 0]]

\* the ASSERTs of InList::Push(t) on list l
PushChecks(s, l, t) ==
    /\ (s.head_[l] = Null) = (s.tail_[l] = Null)
    /\ IF s.head_[l] = Null THEN TRUE ELSE s.prev_[s.head_[l]] = Null
    /\ IF s.tail_[l] = Null THEN TRUE ELSE s.next_[s.tail_[l]] = Null
    /\ s.next_[t] = Null
    /\ s.prev_[t] = Null

\* InList::Push(t) on list l
PtrPush(s, l, t) ==
    LET h == s.head_[l]
        next1 == [s.next_ EXCEPT ![t] = h]
        prev1 == IF h # Null THEN [s.prev_ EXCEPT ![h] = t] ELSE s.prev_
    IN [s EXCEPT !.next_ = next1, !.prev_ = prev1, !.head_[l] = t,
                 !.tail_[l] = IF @ = Null THEN t ELSE @,
                 !.in[l] = @ \cup {t}, !.npush[l] = @ + 1]

\* the ASSERTs at the start of InList::Pop on list l
PopChecks(s, l) ==
    /\ s.tail_[l] # Null /\ s.head_[l] # Null
    /\ s.next_[s.tail_[l]] = Null
    /\ s.prev_[s.head_[l]] = Null

PtrPopKeepNext(s, l) ==
    LET t == s.tail_[l]
    IN [s EXCEPT !.tail_[l] = s.prev_[t],
                 !.head_[l] = IF t = @ THEN Null ELSE @,
                 !.next_[t] = Null, !.prev_[t] = Null,
                 !.in[l] = @ \ {t}, !.npop[l] = @ + 1]

\* InList::Pop on list l
PtrPop(s, l) ==
    LET t == s.tail_[l]
        tl == s.prev_[t]
        next1 == IF tl # Null THEN [s.next_ EXCEPT ![tl] = Null] ELSE s.next_
    IN [s EXCEPT !.tail_[l] = tl,
                 !.head_[l] = IF t = @ THEN Null ELSE @,
                 !.next_ = [next1 EXCEPT ![t] = Null],
                 !.prev_[t] = Null,
                 !.in[l] = @ \ {t}, !.npop[l] = @ + 1]

\* InList::IsEmpty
PtrIsEmpty(s, l) == s.head_[l] = Null /\ s.tail_[l] = Null

\* Routines linked in some mailbox.
Queued == UNION {{q[w][i] : i \in 1 .. Len(q[w])} : w \in Workers}

NoBarrier == [cb_ |-> NoRoutine, pendingCalls_ |-> 0]

PoolInit ==
    /\ nthreads = 0
    /\ nextTh_ = U32Zero
    /\ q = [w \in Workers |-> <<>>]
    /\ wpc = [w \in Workers |-> "off"]
    /\ cur = [w \in Workers |-> NoRoutine]
    /\ spc = [t \in Threads |-> "idle"]
    /\ sreg = [t \in Threads |-> [r |-> NoRoutine, t |-> U32Zero, i |-> 0]]
    /\ br = NoBarrier
    /\ nalloc = 0
    /\ owner = [n \in 1 .. MaxRoutines |-> "none"]
    /\ how = [n \in 1 .. MaxRoutines |-> "none"]
    /\ thAffinity_ = [o \in Logics |-> -1]
    /\ nextId_ = U32Zero
    /\ pushed = [w \in Workers |-> <<>>]
    /\ ran = [w \in Workers |-> <<>>]
    /\ finished = {}
    /\ snap = [n \in 1 .. MaxRoutines |-> {}]
    /\ bsnap = {}
    /\ ndispatch = 0

\* ------------------------------------------------------------ construction
\* RRCpuId::GetId
GetId == U32Mod(nextId_, NumCores)

\* NonBlockingLogic::NonBlockingLogic
NonBlockingLogic(o) ==
    /\ thAffinity_[o] = -1
    /\ thAffinity_' = [thAffinity_ EXCEPT ![o] = GetId]
    /\ nextId_' = U32Inc(nextId_)
    /\ UNCHANGED <<nthreads, nextTh_, q, wpc, cur, spc, sreg, br, nalloc, owner, how,
                   pushed, ran, finished, snap, bsnap, ndispatch,
                   chanVars, extVars>>

\* NonBlockingThreadPool::Start
\* timekeeper_.Init() creates the timerfd and starts the timekeeper's thread;
\* then the ncpu workers are made and started.
Start(ncpu) ==
    /\ nthreads = 0
    /\ tpc = "none"
    /\ ncpu <= NumCores
    /\ tpc' = "read"
    /\ nthreads' = ncpu
    /\ wpc' = [w \in Workers |-> IF w < ncpu THEN "pop" ELSE "off"]
    /\ UNCHANGED <<nextTh_, q, cur, spc, sreg, br, nalloc, owner, how, thAffinity_,
                   nextId_, pushed, ran, finished, snap, bsnap, ndispatch,
                   chanVars, unregVars, now, timers_, armed, nt, deadline, texec,
                   lifeVars, netVars, sysVars>>

\* ---------------------------------------------------------------- dispatch
\* The worker that threads_[nextTh_++ % threads_.size()] names for cursor value t.
PickWorker(t) == U32Mod(t, nthreads)

\* A call of one of the Schedule overloads by thread c: the routine is
\* constructed and the cursor is read.
Dispatch(c, o, h) ==
    /\ nthreads > 0
    /\ spc[c] = "idle"
    /\ nalloc < MaxRoutines
    /\ nalloc' = nalloc + 1
    /\ owner' = [owner EXCEPT ![nalloc + 1] = o]
    /\ how' = [how EXCEPT ![nalloc + 1] = h]
    /\ snap' = [snap EXCEPT ![nalloc + 1] = IF h = "routine" THEN {} ELSE Queued]
    /\ sreg' = [sreg EXCEPT ![c] = [r |-> URoutine(nalloc + 1), t |-> nextTh_, i |-> 0]]
    /\ spc' = [spc EXCEPT ![c] = "wr"]
    /\ UNCHANGED <<nthreads, nextTh_, q, wpc, cur, br, thAffinity_, nextId_, pushed,
                   ran, finished, bsnap, ndispatch,
                   chanVars, extVars>>

\* Schedule(ThreadRoutine * r)
Schedule(c) == Dispatch(c, "none", "routine")

\* Schedule(obj, fn, args...) with a receiver that is a NonBlockingLogic
ScheduleMember(c, o) ==
    /\ thAffinity_[o] # -1
    /\ Dispatch(c, o, "member")

\* ScheduleBarrier(obj, fn, args...)
ScheduleBarrierMember(c) == Dispatch(c, "none", "mbarrier")

\* nextTh_++ : the incremented value is stored
CursorWrite(th) ==
    /\ spc[th] = "wr"
    /\ nextTh_' = U32Inc(sreg[th].t)
    /\ spc' = [spc EXCEPT ![th] = "push"]
    /\ UNCHANGED <<nthreads, q, wpc, cur, sreg, br, nalloc, owner, how, thAffinity_,
                   nextId_, pushed, ran, finished, snap, bsnap, ndispatch,
                   chanVars, extVars>>

\* InQueue::Push up to the unlock: lock_.Lock(); q_.Push(t); lock_.Unlock()
QueuePush(th, w) ==
    /\ q' = [q EXCEPT ![w] = InListPush(@, sreg[th].r)]
    /\ pushed' = [pushed EXCEPT ![w] = Append(@, sreg[th].r)]

MailboxPush(th) ==
    /\ spc[th] = "push"
    /\ QueuePush(th, PickWorker(sreg[th].t))
    /\ spc' = [spc EXCEPT ![th] = "sig"]
    /\ UNCHANGED <<nthreads, nextTh_, wpc, cur, sreg, br, nalloc, owner, how,
                   thAffinity_, nextId_, ran, finished, snap, bsnap, ndispatch,
                   chanVars, extVars>>

SignalLost(w) == wpc
\* conditionEmpty_.Signal(): a worker blocked in Wait is released
Signalled(w) == [wpc EXCEPT ![w] = IF @ = "wait" THEN "pop" ELSE @]

\* InQueue::Push, the Signal after the unlock, by a client thread
MailboxSignal(c) ==
    /\ spc[c] = "sig"
    /\ wpc' = Signalled(PickWorker(sreg[c].t))
    /\ spc' = [spc EXCEPT ![c] = "idle"]
    /\ UNCHANGED <<nthreads, nextTh_, q, cur, sreg, br, nalloc, owner, how, thAffinity_,
                   nextId_, pushed, ran, finished, snap, bsnap, ndispatch,
                   chanVars, extVars>>

\* ----------------------------------------------------------------- barrier
\* ScheduleBarrier(ThreadRoutine * r): the BarrierRoutine is allocated with
\* pendingCalls_ = threads_.size() and the loop starts at i = 0.
ScheduleBarrier(c) ==
    /\ nthreads > 0
    /\ spc[c] = "idle"
    /\ br = NoBarrier
    /\ ndispatch = 0
    /\ br' = [cb_ |-> BarrierCb, pendingCalls_ |-> nthreads]
    /\ bsnap' = Queued
    /\ sreg' = [sreg EXCEPT ![c] = [r |-> HelperRoutine(0), t |-> U32Zero, i |-> 0]]
    /\ spc' = [spc EXCEPT ![c] = "bpush"]
    /\ UNCHANGED <<nthreads, nextTh_, q, wpc, cur, nalloc, owner, how, thAffinity_,
                   nextId_, pushed, ran, finished, snap, ndispatch,
                   chanVars, extVars>>

\* threads_[i]->Push(r) of the loop, up to the unlock
BarrierPush(c) ==
    /\ spc[c] = "bpush"
    /\ QueuePush(c, sreg[c].i)
    /\ spc' = [spc EXCEPT ![c] = "bsig"]
    /\ fsnap' = IF sreg[c].i = nthreads - 1 THEN Queued ELSE fsnap
    /\ UNCHANGED <<nthreads, nextTh_, wpc, cur, sreg, br, nalloc, owner, how,
                   thAffinity_, nextId_, ran, finished, snap, bsnap, ndispatch,
                   chanVars, unregVars, timerVars, lifeVars, netVars,
                   openFds, closes, exitMain_, stopped, aborted, rr, il, bcast, cshut>>

\* the Signal of that Push, then ++i
BarrierSignal(c) ==
    /\ spc[c] = "bsig"
    /\ wpc' = Signalled(sreg[c].i)
    /\ IF sreg[c].i + 1 < nthreads
       THEN /\ sreg' = [sreg EXCEPT ![c] = [r |-> HelperRoutine(sreg[c].i + 1),
                                            t |-> U32Zero, i |-> sreg[c].i + 1]]
            /\ spc' = [spc EXCEPT ![c] = "bpush"]
       ELSE /\ sreg' = sreg
            /\ spc' = [spc EXCEPT ![c] = "idle"]
    /\ UNCHANGED <<nthreads, nextTh_, q, cur, br, nalloc, owner, how, thAffinity_,
                   nextId_, pushed, ran, finished, snap, bsnap, ndispatch,
                   chanVars, extVars>>

\* ------------------------------------------------------------------ worker
\* InQueue::Pop as ThreadMain calls it. Every iteration of the spin loop and the
\* test of the blocking loop is the same locked test of q_.IsEmpty(): one that
\* finds the mailbox empty changes nothing, so only the last one, which blocks
\* in conditionEmpty_.Wait, is a step.
ThreadMainPop(w) ==
    /\ wpc[w] = "pop"
    /\ IF InListIsEmpty(q[w])
       THEN /\ wpc' = [wpc EXCEPT ![w] = "wait"]
            /\ UNCHANGED <<q, cur, ran>>
       ELSE /\ q' = [q EXCEPT ![w] = InListPop(@).rest]
            /\ cur' = [cur EXCEPT ![w] = InListPop(q[w]).t]
            /\ ran' = [ran EXCEPT ![w] = Append(@, InListPop(q[w]).t)]
            /\ wpc' = [wpc EXCEPT ![w] = "run"]
    /\ UNCHANGED <<nthreads, nextTh_, spc, sreg, br, nalloc, owner, how, thAffinity_,
                   nextId_, pushed, finished, snap, bsnap, ndispatch,
                   chanVars, extVars>>

\* conditionEmpty_.Wait may return without a Signal; the while loop tests again.
WaitReturns(w) ==
    /\ wpc[w] = "wait"
    /\ wpc' = [wpc EXCEPT ![w] = "pop"]
    /\ UNCHANGED <<nthreads, nextTh_, q, cur, spc, sreg, br, nalloc, owner, how,
                   thAffinity_, nextId_, pushed, ran, finished, snap, bsnap,
                   ndispatch,
                   chanVars, extVars>>

\* r->Run() of a user routine (or of the barrier's follow-on routine) returns.
ThreadMainRun(w) ==
    /\ wpc[w] = "run"
    /\ cur[w].k \in {"u", "f"}
    /\ finished' = finished \cup {cur[w]}
    /\ cur' = [cur EXCEPT ![w] = NoRoutine]
    /\ wpc' = [wpc EXCEPT ![w] = "pop"]
    /\ UNCHANGED <<nthreads, nextTh_, q, spc, sreg, br, nalloc, owner, how, thAffinity_,
                   nextId_, pushed, ran, snap, bsnap, ndispatch,
                   chanVars, extVars>>

\* AtomicCounter::Add(-1): the value before the addition is returned.
AtomicAdd(v, d) == [old |-> v, new |-> v + d]

BarrierRunFirst(w) ==
    /\ wpc[w] = "run"
    /\ cur[w].k = "h"
    /\ LET count == AtomicAdd(br.pendingCalls_, -1).old
       IN IF count = nthreads
          THEN /\ br' = [br EXCEPT !.pendingCalls_ = AtomicAdd(@, -1).new]
               /\ ndispatch' = ndispatch + 1
               /\ sreg' = [sreg EXCEPT ![w] = [r |-> br.cb_, t |-> U32Zero, i |-> 0]]
               /\ spc' = [spc EXCEPT ![w] = "rd"]
               /\ wpc' = [wpc EXCEPT ![w] = "sched"]
               /\ UNCHANGED <<cur, finished>>
          ELSE /\ br' = [br EXCEPT !.pendingCalls_ = AtomicAdd(@, -1).new]
               /\ finished' = finished \cup {cur[w]}
               /\ cur' = [cur EXCEPT ![w] = NoRoutine]
               /\ wpc' = [wpc EXCEPT ![w] = "pop"]
               /\ UNCHANGED <<ndispatch, sreg, spc>>
    /\ UNCHANGED <<nthreads, nextTh_, q, nalloc, owner, how, thAffinity_, nextId_,
                   pushed, ran, snap, bsnap,
                   chanVars, extVars>>

\* BarrierRoutine::Run reached by the helper on worker w
BarrierRun(w) ==
    /\ wpc[w] = "run"
    /\ cur[w].k = "h"
    /\ LET count == AtomicAdd(br.pendingCalls_, -1).old
       IN IF count = 1
          THEN \* Schedule(cb_) is entered; cb_ = NULL and delete this follow it
               /\ br' = [br EXCEPT !.pendingCalls_ = AtomicAdd(@, -1).new]
               /\ ndispatch' = ndispatch + 1
               /\ sreg' = [sreg EXCEPT ![w] = [r |-> br.cb_, t |-> U32Zero, i |-> 0]]
               /\ spc' = [spc EXCEPT ![w] = "rd"]
               /\ wpc' = [wpc EXCEPT ![w] = "sched"]
               /\ UNCHANGED <<cur, finished>>
          ELSE /\ br' = [br EXCEPT !.pendingCalls_ = AtomicAdd(@, -1).new]
               /\ finished' = finished \cup {cur[w]}
               /\ cur' = [cur EXCEPT ![w] = NoRoutine]
               /\ wpc' = [wpc EXCEPT ![w] = "pop"]
               /\ UNCHANGED <<ndispatch, sreg, spc>>
    /\ UNCHANGED <<nthreads, nextTh_, q, nalloc, owner, how, thAffinity_, nextId_,
                   pushed, ran, snap, bsnap,
                   chanVars, extVars>>

\* Schedule(cb_) inside BarrierRoutine::Run: the cursor is read
BarrierCursorRead(w) ==
    /\ spc[w] = "rd"
    /\ sreg' = [sreg EXCEPT ![w].t = nextTh_]
    /\ spc' = [spc EXCEPT ![w] = "wr"]
    /\ UNCHANGED <<nthreads, nextTh_, q, wpc, cur, br, nalloc, owner, how, thAffinity_,
                   nextId_, pushed, ran, finished, snap, bsnap, ndispatch,
                   chanVars, extVars>>

\* The Signal of Schedule(cb_)'s Push; then cb_ = NULL, delete this, and the
\* helper's Run returns to ThreadMain.
BarrierRunReturns(w) ==
    /\ spc[w] = "sig"
    /\ wpc[w] = "sched"
    /\ wpc' = [Signalled(PickWorker(sreg[w].t)) EXCEPT ![w] = "pop"]
    /\ spc' = [spc EXCEPT ![w] = "idle"]
    /\ br' = NoBarrier
    /\ finished' = finished \cup {cur[w]}
    /\ cur' = [cur EXCEPT ![w] = NoRoutine]
    /\ UNCHANGED <<nthreads, nextTh_, q, sreg, nalloc, owner, how, thAffinity_, nextId_,
                   pushed, ran, snap, bsnap, ndispatch,
                   chanVars, extVars>>

\* ------------------------------------------------------------- TCPChannel
\* The channel's configured write backlog.
DEFAULT_WRITE_BACKLOG == 2
\* The most buffers one writev takes.
IOV_MAX == 2
\* Bytes in the largest buffer handed to EnqueueWrite or Read.
MaxBufLen == 2
\* Bytes the socket holds between the channel and its peer.
SockBuf == 2
\* read() and writev() calls that fail other than by EAGAIN in one run.
MaxFail == 1
\* EnqueueWrite calls in one run: enough to pass the backlog limit.
MaxEnq == DEFAULT_WRITE_BACKLOG + 2
\* Bytes handed to EnqueueWrite in one run: enough to fill the backlog.
MaxBytes == 4
EBUSY == 16

RECURSIVE Flatten(_)
Flatten(bufs) == IF bufs = <<>> THEN <<>> ELSE Head(bufs) \o Flatten(Tail(bufs))

Min(a, b) == IF a < b THEN a ELSE b

\* IOBuffer::Cut(n): the first n bytes are removed
Cut(buf, n) == SubSeq(buf, n + 1, Len(buf))

NoDrain == [on |-> FALSE, caller |-> "none", isasync |-> FALSE, bytesWritten |-> 0]
\* ReadCtx(): no buffer, no bytes read
NoRead == [size |-> 0, bytesRead |-> 0, data |-> <<>>]
NoReadDrain == [on |-> FALSE, isasync |-> FALSE]
NoReadDone == [status |-> 0, size |-> 0, data |-> <<>>]
NoCompletion == [size |-> 0, data |-> <<>>, sync |-> FALSE]
\* a step that completes no read and makes no read-done callback
NoReadEvent == rcb' = NoReadDone /\ rdone' = NoCompletion
\* a step that makes no write-done callback
NoWriteEvent == wcb' = <<>>

ChanInit ==
    /\ wbuf_ = <<>>
    /\ wdrain = NoDrain
    /\ wire = <<>>
    /\ rctx_ = NoRead
    /\ rdrain = NoReadDrain
    /\ nfail = 0
    /\ enq = <<>>
    /\ sent = <<>>
    /\ delivered = <<>>
    /\ rdone = NoCompletion
    /\ rcb = NoReadDone
    /\ wcb = <<>>
    /\ ret = [n |-> 0, v |-> 0]
    /\ hcalls = 0
    /\ rerr = FALSE

\* The n-th byte handed to the channel is n, so that a byte lost, doubled or
\* out of place shows.
NewBuffer(len) == [i \in 1 .. len |-> Len(enq) + i]

\* EnqueueWrite returns v
EnqueueWriteReturns(v) == ret' = [n |-> ret.n + 1, v |-> v]

\* TCPChannel::EnqueueWrite up to the call of WriteDataToSocket
EnqueueWrite(len) ==
    /\ ~wdrain.on
    /\ ret.n < MaxEnq
    /\ IF Len(wbuf_) > DEFAULT_WRITE_BACKLOG
       THEN /\ EnqueueWriteReturns(-EBUSY)
            /\ UNCHANGED <<wbuf_, wdrain, enq>>
       ELSE /\ wbuf_' = Append(wbuf_, NewBuffer(len))
            /\ enq' = enq \o NewBuffer(len)
            /\ wdrain' = [on |-> TRUE, caller |-> "enqueue", isasync |-> wbuf_ # <<>>,
                          bytesWritten |-> 0]
            /\ ret' = ret
    /\ NoReadEvent
    /\ NoWriteEvent
    /\ UNCHANGED <<wire, rctx_, rdrain, nfail, sent, delivered, hcalls, rerr,
                   poolVars, extVars>>

\* TCPChannel::HandleFdEvent with EPOLLOUT, run as a pool routine
HandleFdEventOut ==
    /\ ~wdrain.on
    /\ wdrain' = [on |-> TRUE, caller |-> "event", isasync |-> TRUE, bytesWritten |-> 0]
    /\ NoReadEvent
    /\ NoWriteEvent
    /\ UNCHANGED <<wbuf_, wire, rctx_, rdrain, nfail, enq, sent, delivered, ret, hcalls, rerr,
                   poolVars, extVars>>

\* WriteDataToSocket returns v to its caller; EnqueueWrite hands it on when it
\* drained synchronously and returns 0 otherwise.
WriteReturns(v) ==
    /\ wdrain' = NoDrain
    /\ IF wdrain.caller = "enqueue"
       THEN EnqueueWriteReturns(IF wdrain.isasync THEN 0 ELSE v)
       ELSE ret' = ret

\* the loop of WriteDataToSocket finds the backlog empty
WriteNothingLeft ==
    /\ wdrain.on
    /\ wbuf_ = <<>>
    /\ WriteReturns(wdrain.bytesWritten)
    /\ NoReadEvent
    /\ NoWriteEvent
    /\ UNCHANGED <<wbuf_, wire, rctx_, rdrain, nfail, enq, sent, delivered, hcalls, rerr,
                   poolVars, extVars>>

\* writev fails with EAGAIN, or writes 0 bytes: the socket takes nothing now
WritevEAGAIN ==
    /\ wdrain.on
    /\ wbuf_ # <<>>
    /\ WriteReturns(wdrain.bytesWritten)
    /\ NoReadEvent
    /\ NoWriteEvent
    /\ UNCHANGED <<wbuf_, wire, rctx_, rdrain, nfail, enq, sent, delivered, hcalls, rerr,
                   poolVars, extVars>>

\* writev fails with another errno
WritevFails ==
    /\ wdrain.on
    /\ wbuf_ # <<>>
    /\ nfail < MaxFail
    /\ nfail' = nfail + 1
    /\ wcb' = IF wdrain.isasync THEN <<[status |-> -1, size |-> 0]>> ELSE <<>>
    /\ WriteReturns(-1)
    /\ NoReadEvent
    /\ UNCHANGED <<wbuf_, wire, rctx_, rdrain, enq, sent, delivered, hcalls, rerr,
                   poolVars, extVars>>

\* The buffers writev is given: the first IOV_MAX of the backlog.
Iovecs == SubSeq(wbuf_, 1, Min(Len(wbuf_), IOV_MAX))

TrimWbufPopFront(w, bytes) == [wbuf |-> Tail(w), popped |-> <<Len(Head(w))>>]

TrimWbufNoCut(w, bytes) ==
    IF bytes >= Len(Head(w))
    THEN [wbuf |-> Tail(w), popped |-> <<Len(Head(w))>>]
    ELSE [wbuf |-> w, popped |-> <<>>]
\* The trim loop after a writev of bytes > 0: buffers the bytes cover are
\* popped, the first one they cover in part is cut.
RECURSIVE TrimWbuf(_, _)
TrimWbuf(w, bytes) ==
    IF bytes >= Len(Head(w))
    THEN IF bytes - Len(Head(w)) = 0
         THEN [wbuf |-> Tail(w), popped |-> <<Len(Head(w))>>]
         ELSE LET t == TrimWbuf(Tail(w), bytes - Len(Head(w)))
              IN [wbuf |-> t.wbuf, popped |-> <<Len(Head(w))>> \o t.popped]
    ELSE [wbuf |-> <<Cut(Head(w), bytes)>> \o Tail(w), popped |-> <<>>]

\* writev writes status > 0 bytes; the backlog is trimmed, with a write-done
\* callback per popped buffer when isasync, and the loop goes on
WritevWrites(status) ==
    /\ wdrain.on
    /\ wbuf_ # <<>>
    /\ status <= Min(Len(Flatten(Iovecs)), SockBuf - Len(wire))
    /\ LET bytesWritten == wdrain.bytesWritten + status
           t == TrimWbuf(wbuf_, status)
       IN /\ wire' = wire \o SubSeq(Flatten(Iovecs), 1, status)
          /\ sent' = sent \o SubSeq(Flatten(Iovecs), 1, status)
          /\ wdrain' = [wdrain EXCEPT !.bytesWritten = bytesWritten]
          /\ wbuf_' = t.wbuf
          /\ wcb' = IF wdrain.isasync
                    THEN [i \in 1 .. Len(t.popped) |->
                             [status |-> bytesWritten, size |-> t.popped[i]]]
                    ELSE <<>>
    /\ NoReadEvent
    /\ UNCHANGED <<rctx_, rdrain, nfail, enq, delivered, ret, hcalls, rerr,
                   poolVars, extVars>>

\* TCPChannel::Read on the peer, up to the call of ReadDataFromSocket
Read(size) ==
    /\ ~rdrain.on
    /\ rctx_ = NoRead
    /\ rctx_' = [size |-> size, bytesRead |-> 0, data |-> <<>>]
    /\ rdrain' = [on |-> TRUE, isasync |-> FALSE]
    /\ hcalls' = 0
    /\ rerr' = FALSE
    /\ NoReadEvent
    /\ NoWriteEvent
    /\ UNCHANGED <<wbuf_, wdrain, wire, nfail, enq, sent, delivered, ret,
                   poolVars, extVars>>

\* TCPChannel::HandleFdEvent with EPOLLIN on the peer, run as a pool routine;
\* without a read context ReadDataFromSocket returns at once
HandleFdEventIn ==
    /\ ~rdrain.on
    /\ rdrain' = IF rctx_.size = 0 THEN rdrain ELSE [on |-> TRUE, isasync |-> TRUE]
    /\ NoReadEvent
    /\ NoWriteEvent
    /\ UNCHANGED <<wbuf_, wdrain, wire, rctx_, nfail, enq, sent, delivered, ret, hcalls, rerr,
                   poolVars, extVars>>

\* read() has nothing to give: it fails with EAGAIN, or returns 0
ReadNoData ==
    /\ rdrain.on
    /\ wire = <<>>
    /\ rdrain' = NoReadDrain
    /\ NoReadEvent
    /\ NoWriteEvent
    /\ UNCHANGED <<wbuf_, wdrain, wire, rctx_, nfail, enq, sent, delivered, ret, hcalls, rerr,
                   poolVars, extVars>>

\* read() fails with another errno: the handler is told, the context stays
ReadFails ==
    /\ rdrain.on
    /\ nfail < MaxFail
    /\ nfail' = nfail + 1
    /\ rcb' = [status |-> -1, size |-> 0, data |-> <<>>]
    /\ hcalls' = hcalls + 1
    /\ rerr' = TRUE
    /\ rdrain' = NoReadDrain
    /\ rdone' = NoCompletion
    /\ NoWriteEvent
    /\ UNCHANGED <<wbuf_, wdrain, wire, rctx_, enq, sent, delivered, ret,
                   poolVars, extVars>>

ReadCompleteLate(bytesRead) == bytesRead > rctx_.size

\* whether the read is complete after bytesRead bytes
ReadCompleteAny(bytesRead) == TRUE
ReadComplete(bytesRead) == bytesRead = rctx_.size

\* read() returns status > 0 bytes; a buffer now full completes the read, with
\* a read-done callback when isasync, else the loop goes on
ReadReads(status) ==
    /\ rdrain.on
    /\ status <= Min(Len(wire), rctx_.size - rctx_.bytesRead)
    /\ wire' = SubSeq(wire, status + 1, Len(wire))
    /\ LET bytesRead == rctx_.bytesRead + status
           data == rctx_.data \o SubSeq(wire, 1, status)
       IN IF ReadComplete(bytesRead)
          THEN /\ rcb' = IF rdrain.isasync
                         THEN [status |-> bytesRead, size |-> rctx_.size, data |-> data]
                         ELSE NoReadDone
               /\ hcalls' = IF rdrain.isasync THEN hcalls + 1 ELSE hcalls
               /\ rdone' = [size |-> rctx_.size, data |-> data, sync |-> ~rdrain.isasync]
               /\ delivered' = delivered \o data
               /\ rctx_' = NoRead
               /\ rdrain' = NoReadDrain
          ELSE /\ rctx_' = [rctx_ EXCEPT !.bytesRead = bytesRead, !.data = data]
               /\ NoReadEvent
               /\ UNCHANGED <<delivered, rdrain, hcalls>>
    /\ NoWriteEvent
    /\ UNCHANGED <<wbuf_, wdrain, nfail, enq, sent, ret, rerr,
                   poolVars, extVars>>

ChanNext ==
    \/ \E len \in 1 .. MaxBufLen : Len(enq) + len <= MaxBytes /\ EnqueueWrite(len)
    \/ HandleFdEventOut
    \/ WriteNothingLeft
    \/ WritevEAGAIN
    \/ WritevFails
    \/ \E status \in 1 .. (IOV_MAX * MaxBufLen) : WritevWrites(status)
    \/ \E size \in 1 .. MaxBufLen : Read(size)
    \/ HandleFdEventIn
    \/ ReadNoData
    \/ ReadFails
    \/ \E status \in 1 .. MaxBufLen : ReadReads(status)

\* ------------------------------------------------- register and unregister
\* In this part the write backlog and the read context are those of one
\* channel: its socket takes no bytes, and what its peer sends arrives in wire.
ClientThread == NumCores
\* The demultiplexer's thread, which runs epoll_wait and schedules the routines.
EpollThread == NumCores + 1

EventRoutine(n) == [k |-> "ev", n |-> n]
ReadDoneRoutine(n) == [k |-> "rd", n |-> n]

\* Client(): no handle, no unregister-done function
NoClient == [h_ |-> "none", unregisterDoneFn_ |-> "none"]
NotDone == [client |-> NoClient, wbuf |-> <<>>, rctx |-> NoRead, h |-> "none", status |-> 0]

UnregInit ==
    /\ client_ = NoClient
    /\ registered = FALSE
    /\ inEdge = FALSE
    /\ nev = 0
    /\ nrd = 0
    /\ bdc = NoClient
    /\ undone = 0
    /\ atDone = NotDone
    /\ late = FALSE

\* lock_ of the channel is free: no drain runs and no routine of the channel
\* is inside its Guard
LockFree ==
    /\ ~rdrain.on
    /\ ~wdrain.on
    /\ \A w \in Workers : wpc[w] \notin {"drain", "wake"}

\* TCPChannel::RegisterHandle; epoll_.Add reports a socket that is readable
RegisterHandle ==
    /\ LockFree
    /\ client_ = NoClient
    /\ bdc = NoClient
    /\ ~registered
    /\ client_' = [h_ |-> "h", unregisterDoneFn_ |-> "none"]
    /\ registered' = TRUE
    /\ inEdge' = (wire # <<>>)
    /\ UNCHANGED <<nev, nrd, bdc, undone, atDone, late, poolVars, chanVars>>
    /\ UNCHANGED <<timerVars, lifeVars, netVars, sysVars>>

\* The client's calls are made between RegisterHandle and UnregisterHandle.
ClientMayCall == LockFree /\ client_.h_ # "none" /\ client_.unregisterDoneFn_ = "none"

\* The peer's bytes arrive in the socket of a registered channel; the kernel
\* notes the readiness.
PeerData ==
    /\ registered
    /\ Len(delivered) + Len(rctx_.data) + Len(wire) < MaxBufLen
    /\ undone = 0
    /\ wire' = Append(wire, Len(delivered) + Len(rctx_.data) + Len(wire) + 1)
    /\ inEdge' = registered
    /\ UNCHANGED <<wbuf_, wdrain, rctx_, rdrain, nfail, enq, sent, delivered, rdone, rcb,
                   wcb, ret, hcalls, rerr>>
    /\ UNCHANGED <<client_, registered, nev, nrd, bdc, undone, atDone, late, poolVars>>
    /\ UNCHANGED <<timerVars, lifeVars, netVars, sysVars>>

\* epoll_wait reports EPOLLIN for the fd and the demultiplexer's thread calls
\* Schedule for a HandleFdEvent routine: the cursor is read
EpollWait ==
    /\ nthreads > 0
    /\ registered
    /\ inEdge
    /\ spc[EpollThread] = "idle"
    /\ inEdge' = FALSE
    /\ nev' = nev + 1
    /\ sreg' = [sreg EXCEPT ![EpollThread] = [r |-> EventRoutine(nev + 1), t |-> nextTh_,
                                              i |-> 0]]
    /\ spc' = [spc EXCEPT ![EpollThread] = "wr"]
    /\ UNCHANGED <<nthreads, nextTh_, q, wpc, cur, br, nalloc, owner, how, thAffinity_,
                   nextId_, pushed, ran, finished, snap, bsnap, ndispatch>>
    /\ UNCHANGED <<client_, registered, nrd, bdc, undone, atDone, late, chanVars>>
    /\ UNCHANGED <<timerVars, lifeVars, netVars, sysVars>>

\* TCPChannel::UnregisterHandle up to its call of ScheduleBarrier: the
\* unregister-done function is kept and epoll_.Remove takes the fd out; Remove
\* waits for a dispatch the demultiplexer's thread is in.
UnregisterHandle ==
    /\ ClientMayCall
    /\ spc[ClientThread] = "idle"
    /\ spc[EpollThread] = "idle"
    /\ client_' = [client_ EXCEPT !.unregisterDoneFn_ = "cb"]
    /\ registered' = FALSE
    /\ UNCHANGED <<inEdge, nev, nrd, bdc, undone, atDone, late, poolVars, chanVars>>
    /\ UNCHANGED <<timerVars, lifeVars, netVars, sysVars>>

\* UnregisterHandle has removed the fd and has not called ScheduleBarrier yet.
BarrierDue == client_.unregisterDoneFn_ # "none" /\ br = NoBarrier /\ ndispatch = 0

\* HandleFdEvent(fd, EPOLLIN) as the routine worker w popped: Guard _(&lock_)
\* and the entry of ReadDataFromSocket(true)
RunHandleFdEvent(w) ==
    /\ wpc[w] = "run"
    /\ cur[w].k = "ev"
    /\ LockFree
    /\ wpc' = [wpc EXCEPT ![w] = "drain"]
    /\ rdrain' = IF rctx_.size = 0 THEN rdrain ELSE [on |-> TRUE, isasync |-> TRUE]
    /\ late' = (late \/ undone > 0)
    /\ NoReadEvent
    /\ NoWriteEvent
    /\ UNCHANGED <<wbuf_, wdrain, wire, rctx_, nfail, enq, sent, delivered, ret, hcalls, rerr>>
    /\ UNCHANGED <<nthreads, nextTh_, q, cur, spc, sreg, br, nalloc, owner, how,
                   thAffinity_, nextId_, pushed, ran, finished, snap, bsnap, ndispatch>>
    /\ UNCHANGED <<client_, registered, inEdge, nev, nrd, bdc, undone, atDone>>
    /\ UNCHANGED <<timerVars, lifeVars, netVars, sysVars>>

\* ReadDataFromSocket has returned into HandleFdEvent on worker w. If it called
\* the handler's Wakeup, the read-done routine is handed to Schedule before
\* the return; else HandleFdEvent returns to ThreadMain.
HandleFdEventReturns(w) ==
    /\ wpc[w] = "drain"
    /\ ~rdrain.on
    /\ IF rcb # NoReadDone
       THEN /\ nrd' = nrd + 1
            /\ sreg' = [sreg EXCEPT ![w] = [r |-> ReadDoneRoutine(nrd + 1), t |-> U32Zero,
                                            i |-> 0]]
            /\ spc' = [spc EXCEPT ![w] = "rd"]
            /\ wpc' = [wpc EXCEPT ![w] = "wake"]
            /\ UNCHANGED <<cur, finished>>
       ELSE /\ finished' = finished \cup {cur[w]}
            /\ cur' = [cur EXCEPT ![w] = NoRoutine]
            /\ wpc' = [wpc EXCEPT ![w] = "pop"]
            /\ UNCHANGED <<nrd, sreg, spc>>
    /\ UNCHANGED <<nthreads, nextTh_, q, br, nalloc, owner, how, thAffinity_, nextId_,
                   pushed, ran, snap, bsnap, ndispatch>>
    /\ UNCHANGED <<client_, registered, inEdge, nev, bdc, undone, atDone, late, chanVars>>
    /\ UNCHANGED <<timerVars, lifeVars, netVars, sysVars>>

\* The Signal of Wakeup's Push; then the Guard is left and HandleFdEvent
\* returns to ThreadMain.
WakeupReturns(w) ==
    /\ spc[w] = "sig"
    /\ wpc[w] = "wake"
    /\ wpc' = [Signalled(PickWorker(sreg[w].t)) EXCEPT ![w] = "pop"]
    /\ spc' = [spc EXCEPT ![w] = "idle"]
    /\ finished' = finished \cup {cur[w]}
    /\ cur' = [cur EXCEPT ![w] = NoRoutine]
    /\ UNCHANGED <<nthreads, nextTh_, q, sreg, br, nalloc, owner, how, thAffinity_,
                   nextId_, pushed, ran, snap, bsnap, ndispatch, chanVars, extVars>>

\* The read-done routine runs on worker w: the client's callback is made.
RunReadDone(w) ==
    /\ wpc[w] = "run"
    /\ cur[w].k = "rd"
    /\ late' = (late \/ undone > 0)
    /\ finished' = finished \cup {cur[w]}
    /\ cur' = [cur EXCEPT ![w] = NoRoutine]
    /\ wpc' = [wpc EXCEPT ![w] = "pop"]
    /\ UNCHANGED <<nthreads, nextTh_, q, spc, sreg, br, nalloc, owner, how, thAffinity_,
                   nextId_, pushed, ran, snap, bsnap, ndispatch>>
    /\ UNCHANGED <<client_, registered, inEdge, nev, nrd, bdc, undone, atDone, chanVars>>
    /\ UNCHANGED <<timerVars, lifeVars, netVars, sysVars>>

\* what BarrierDone resets under lock_
ClearedKeepRead == [wbuf |-> <<>>, rctx |-> rctx_, client |-> NoClient]
Cleared == [wbuf |-> <<>>, rctx |-> NoRead, client |-> NoClient]

\* TCPChannel::BarrierDone as the routine worker w popped, up to the end of its
\* Guard: c is copied, the backlog, the read context and the client are reset
BarrierDoneClear(w) ==
    /\ wpc[w] = "run"
    /\ cur[w].k = "f"
    /\ LockFree
    /\ bdc' = client_
    /\ wbuf_' = Cleared.wbuf
    /\ rctx_' = Cleared.rctx
    /\ client_' = Cleared.client
    /\ wpc' = [wpc EXCEPT ![w] = "undone"]
    /\ NoReadEvent
    /\ NoWriteEvent
    /\ UNCHANGED <<wdrain, wire, rdrain, nfail, enq, sent, delivered, ret, hcalls, rerr>>
    /\ UNCHANGED <<nthreads, nextTh_, q, cur, spc, sreg, br, nalloc, owner, how,
                   thAffinity_, nextId_, pushed, ran, finished, snap, bsnap, ndispatch>>
    /\ UNCHANGED <<registered, inEdge, nev, nrd, undone, atDone, late>>
    /\ UNCHANGED <<timerVars, lifeVars, netVars, sysVars>>

\* (c.h_->*c.unregisterDoneFn_)(0), and BarrierDone returns to ThreadMain
BarrierDoneInvoke(w) ==
    /\ wpc[w] = "undone"
    /\ undone' = undone + 1
    /\ atDone' = [client |-> client_, wbuf |-> wbuf_, rctx |-> rctx_, h |-> bdc.h_,
                  status |-> 0]
    /\ finished' = finished \cup {cur[w]}
    /\ cur' = [cur EXCEPT ![w] = NoRoutine]
    /\ wpc' = [wpc EXCEPT ![w] = "pop"]
    /\ UNCHANGED <<nthreads, nextTh_, q, spc, sreg, br, nalloc, owner, how, thAffinity_,
                   nextId_, pushed, ran, snap, bsnap, ndispatch>>
    /\ UNCHANGED <<client_, registered, inEdge, nev, nrd, bdc, late, chanVars>>
    /\ UNCHANGED <<timerVars, lifeVars, netVars, sysVars>>

\* ------------------------------------------------------------- timekeeper
\* Time is counted in milliseconds; the clock moves TickMs at a time. A timespec
\* is kept as seconds and the rest below a second (in milliseconds here).
MsPerSec == 1000
TickMs == 500
MaxTicks == 3
MaxTimers == 2
MaxMs == 2

TimeKeeperThread == NumCores + 1
TimedRoutine(n) == [k |-> "t", n |-> n]
NoTime == [tv_sec |-> -1, tv_nsec |-> 0]

TimerInit ==
    /\ now = 0
    /\ timers_ = {}
    /\ armed = NoTime
    /\ tpc = "none"
    /\ nt = 0
    /\ deadline = [n \in 1 .. MaxTimers |-> 0]
    /\ texec = <<>>

\* GetTimeSpec without the addition of msec
GetTimeSpecNow(msec) == [tv_sec |-> now \div MsPerSec, tv_nsec |-> now % MsPerSec]

\* clock_gettime(CLOCK_MONOTONIC, &t)
ClockGettime == [tv_sec |-> now \div MsPerSec, tv_nsec |-> now % MsPerSec]

\* TimeKeeper::GetTimeSpec
GetTimeSpec(msec) ==
    LET t == ClockGettime
        sec == t.tv_sec + (msec \div MsPerSec)
        nsec == t.tv_nsec + (msec % MsPerSec)
    IN [tv_sec |-> sec + (nsec \div MsPerSec), tv_nsec |-> nsec % MsPerSec]

TimeLessNsec(a, b) == a.tv_nsec < b.tv_nsec

\* TimerEvent::operator< on the times of two events
TimeLess(a, b) ==
    IF a.tv_sec = b.tv_sec THEN a.tv_nsec < b.tv_nsec ELSE a.tv_sec < b.tv_sec

BeginLatest(S) == CHOOSE e \in S : \A f \in S : ~TimeLess(e.time_, f.time_)

\* timers_.begin(): an event no other event is less than
Begin(S) == CHOOSE e \in S : \A f \in S : ~TimeLess(f.time_, e.time_)

\* the timerfd is readable: it is armed with an absolute time the clock reached
Expired == armed # NoTime /\ ~TimeLess(ClockGettime, armed)

\* the clock moves on
Tick ==
    /\ now < MaxTicks * TickMs
    /\ now' = now + TickMs
    /\ UNCHANGED <<timers_, armed, tpc, nt, deadline, texec, poolVars, chanVars, unregVars, lifeVars, netVars, sysVars>>

\* TimeKeeper::ScheduleIn(msec, r) as the pool's ScheduleIn calls it with a
\* routine it constructed: the event is inserted and SetTimer arms the timerfd
\* to the time of timers_.begin()
ScheduleIn(msec) ==
    /\ tpc \in {"read", "woken"}
    /\ nt < MaxTimers
    /\ nt' = nt + 1
    /\ deadline' = [deadline EXCEPT ![nt + 1] = now + msec]
    /\ timers_' = timers_ \cup {[time_ |-> GetTimeSpec(msec), r_ |-> TimedRoutine(nt + 1)]}
    /\ armed' = Begin(timers_').time_
    /\ UNCHANGED <<now, tpc, texec, poolVars, chanVars, unregVars, lifeVars, netVars, sysVars>>

\* the timekeeper's thread: read(fd_) returns when the timer expired
TimerRead ==
    /\ tpc = "read"
    /\ Expired
    /\ armed' = NoTime
    /\ tpc' = "woken"
    /\ UNCHANGED <<now, timers_, nt, deadline, texec, poolVars, chanVars, unregVars, lifeVars, netVars, sysVars>>

\* the timekeeper's thread under lock_ : the first event is due and its routine
\* is handed to Schedule (the cursor is read); or none is due and the timerfd
\* is armed to the earliest event left
TimerFire ==
    /\ tpc \in {"woken", "due"}
    /\ spc[TimeKeeperThread] = "idle"
    /\ IF timers_ # {} /\ ~TimeLess(ClockGettime, Begin(timers_).time_)
       THEN /\ timers_' = timers_ \ {Begin(timers_)}
            /\ sreg' = [sreg EXCEPT ![TimeKeeperThread] =
                            [r |-> Begin(timers_).r_, t |-> nextTh_, i |-> 0]]
            /\ spc' = [spc EXCEPT ![TimeKeeperThread] = "wr"]
            /\ tpc' = "due"
            /\ armed' = armed
       ELSE /\ armed' = IF timers_ = {} THEN NoTime ELSE Begin(timers_).time_
            /\ tpc' = "read"
            /\ UNCHANGED <<timers_, sreg, spc>>
    /\ UNCHANGED <<nthreads, nextTh_, q, wpc, cur, br, nalloc, owner, how, thAffinity_,
                   nextId_, pushed, ran, finished, snap, bsnap, ndispatch>>
    /\ UNCHANGED <<now, nt, deadline, texec, chanVars, unregVars, lifeVars, netVars, sysVars>>

\* r->Run() of a timed routine on worker w
RunTimed(w) ==
    /\ wpc[w] = "run"
    /\ cur[w].k = "t"
    /\ texec' = Append(texec, [r |-> cur[w].n, at |-> now])
    /\ finished' = finished \cup {cur[w]}
    /\ cur' = [cur EXCEPT ![w] = NoRoutine]
    /\ wpc' = [wpc EXCEPT ![w] = "pop"]
    /\ UNCHANGED <<nthreads, nextTh_, q, spc, sreg, br, nalloc, owner, how, thAffinity_,
                   nextId_, pushed, ran, snap, bsnap, ndispatch>>
    /\ UNCHANGED <<now, timers_, armed, tpc, nt, deadline, chanVars, unregVars, lifeVars, netVars, sysVars>>

\* ------------------------------------------------------ shutdown and wait
ThreadExitRoutine(w) == [k |-> "x", n |-> w]

LifeInit ==
    /\ shut = [pc |-> "no", i |-> 0]
    /\ wt = "idle"
    /\ modZero = FALSE

\* NonBlockingThreadPool::Wait: condExit_.Wait(&lock_) blocks the caller
Wait ==
    /\ tpc = "read"
    /\ shut.pc = "no"
    /\ wt = "idle"
    /\ wt' = "blocked"
    /\ UNCHANGED <<shut, modZero, poolVars, chanVars, unregVars, timerVars, netVars, sysVars>>

\* NonBlockingThreadPool::Wakeup: condExit_.Broadcast() under lock_
Wakeup ==
    /\ tpc # "none"
    /\ shut.pc \in {"no", "done"}
    /\ wt' = IF wt = "blocked" THEN "returned" ELSE wt
    /\ bcast' = TRUE
    /\ UNCHANGED <<shut, modZero, poolVars, chanVars, unregVars, timerVars, netVars,
                   openFds, closes, fsnap, exitMain_, stopped, aborted, rr, il,
                   cshut>>

\* NonBlockingThreadPool::Shutdown up to DestroyThreads: lock_ is taken and
\* timekeeper_.Shutdown() cancels the timekeeper's thread and closes the timerfd.
\* The caller has let the timers fire and the workers drain their mailboxes.
Shutdown ==
    /\ tpc = "read"
    /\ shut.pc = "no"
    /\ timers_ = {}
    /\ \A th \in Threads : spc[th] = "idle"
    /\ \A w \in Workers : InListIsEmpty(q[w]) /\ cur[w] = NoRoutine
    /\ tpc' = "cancelled"
    /\ armed' = NoTime
    /\ shut' = [pc |-> "stop", i |-> 0]
    /\ UNCHANGED <<wt, modZero, now, timers_, nt, deadline, texec, poolVars, chanVars,
                   unregVars, netVars, sysVars>>

\* NonBlockingThread::Stop of DestroyThreads' loop up to pthread_join:
\* exitMain_ = true and Push(new ThreadExitRoutine())
Stop ==
    /\ shut.pc = "stop"
    /\ shut.i < nthreads
    /\ InListIsEmpty(q[shut.i])
    /\ q' = [q EXCEPT ![shut.i] = InListPush(@, ThreadExitRoutine(shut.i))]
    /\ pushed' = [pushed EXCEPT ![shut.i] = Append(@, ThreadExitRoutine(shut.i))]
    /\ wpc' = Signalled(shut.i)
    /\ shut' = [shut EXCEPT !.pc = "join"]
    /\ UNCHANGED <<nthreads, nextTh_, cur, spc, sreg, br, nalloc, owner, how, thAffinity_,
                   nextId_, ran, finished, snap, bsnap, ndispatch>>
    /\ UNCHANGED <<wt, modZero, chanVars, unregVars, timerVars, netVars, sysVars>>

\* ThreadExitRoutine::Run throws and the worker's thread ends
RunThreadExit(w) ==
    /\ wpc[w] = "run"
    /\ cur[w].k = "x"
    /\ wpc' = [wpc EXCEPT ![w] = "off"]
    /\ cur' = [cur EXCEPT ![w] = NoRoutine]
    /\ finished' = finished \cup {cur[w]}
    /\ UNCHANGED <<nthreads, nextTh_, q, spc, sreg, br, nalloc, owner, how, thAffinity_,
                   nextId_, pushed, ran, snap, bsnap, ndispatch, chanVars, extVars>>

\* pthread_join of Stop returns, the thread object is deleted, ++it
StopJoined ==
    /\ shut.pc = "join"
    /\ wpc[shut.i] = "off"
    /\ shut' = [pc |-> "stop", i |-> shut.i + 1]
    /\ UNCHANGED <<wt, modZero, poolVars, chanVars, unregVars, timerVars, netVars, sysVars>>

\* DestroyThreads ends with threads_.clear() and Shutdown returns
ShutdownReturns ==
    /\ shut.pc = "stop"
    /\ shut.i = nthreads
    /\ nthreads' = 0
    /\ shut' = [pc |-> "done", i |-> 0]
    /\ UNCHANGED <<nextTh_, q, wpc, cur, spc, sreg, br, nalloc, owner, how, thAffinity_,
                   nextId_, pushed, ran, finished, snap, bsnap, ndispatch>>
    /\ UNCHANGED <<wt, modZero, chanVars, unregVars, timerVars, netVars, sysVars>>

\* Schedule(ThreadRoutine * r) on a started pool whose threads_ is empty:
\* nextTh_++ % threads_.size() is a remainder by zero
ScheduleNoThread(c) ==
    /\ tpc = "read"
    /\ nthreads = 0
    /\ spc[c] = "idle"
    /\ modZero' = TRUE
    /\ UNCHANGED <<shut, wt, poolVars, chanVars, unregVars, timerVars, netVars, sysVars>>

\* ------------------------------------------------- listener and connector
MaxConn == 2

AcceptRoutine(n) == [k |-> "la", n |-> n]
ConnectRoutine(fd) == [k |-> "ce", n |-> fd]
ConnDoneRoutine(n) == [k |-> "cd", n |-> n]

\* what the kernel reports for a connect that ended
ConnectEvents == {{"EPOLLOUT"}, {"EPOLLOUT", "EPOLLERR"}, {"EPOLLERR"},
                  {"EPOLLOUT", "EPOLLERR", "EPOLLHUP"}}

SysInit ==
    /\ openFds = {}
    /\ closes = 0
    /\ fsnap = {}
    /\ exitMain_ = [w \in Workers |-> FALSE]
    /\ stopped = [w \in Workers |-> "no"]
    /\ aborted = FALSE
    /\ il = InListNew
    /\ bcast = FALSE
    /\ cshut = "no"

NetInit ==
    /\ listening = FALSE
    /\ backlog = 0
    /\ lEdge = FALSE
    /\ nacc = 0
    /\ nconn = 0
    /\ clients_ = {}
    /\ epollFds = {}
    /\ cready = [fd \in 1 .. MaxConn |-> {}]
    /\ cev = [fd \in 1 .. MaxConn |-> {}]
    /\ nch = 0
    /\ arrived = 0
    /\ csched = <<>>
    /\ cdone = <<>>

\* the demultiplexer's thread calls Schedule for routine r: the cursor is read
EpollSchedule(r) ==
    /\ nthreads > 0
    /\ spc[EpollThread] = "idle"
    /\ sreg' = [sreg EXCEPT ![EpollThread] = [r |-> r, t |-> nextTh_, i |-> 0]]
    /\ spc' = [spc EXCEPT ![EpollThread] = "wr"]
    /\ UNCHANGED <<nthreads, nextTh_, q, wpc, cur, br, nalloc, owner, how, thAffinity_,
                   nextId_, pushed, ran, finished, snap, bsnap, ndispatch>>

\* ThreadPool::Schedule(client.h_, client.connDoneFn_, this, status, ch) by the
\* routine on worker w, up to the read of the cursor
ScheduleConnDone(w, from, status, ch) ==
    /\ csched' = Append(csched, [from |-> from, status |-> status, ch |-> ch,
                                 events |-> IF from = 0 THEN {"EPOLLIN"} ELSE cev[from],
                                 inEpoll |-> from \in epollFds,
                                 inClients |-> from \in clients_])
    /\ sreg' = [sreg EXCEPT ![w] = [r |-> ConnDoneRoutine(Len(csched) + 1), t |-> U32Zero,
                                    i |-> 0]]
    /\ spc' = [spc EXCEPT ![w] = "rd"]
    /\ wpc' = [wpc EXCEPT ![w] = "wake"]
    /\ UNCHANGED <<nthreads, nextTh_, q, cur, br, nalloc, owner, how, thAffinity_, nextId_,
                   pushed, ran, finished, snap, bsnap, ndispatch>>

\* TCPServer::Listen
Listen ==
    /\ ~listening
    /\ listening' = TRUE
    /\ UNCHANGED <<backlog, lEdge, nacc, nconn, clients_, epollFds, cready, cev, nch,
                   arrived, csched, cdone>>
    /\ UNCHANGED <<poolVars, chanVars, unregVars, timerVars, lifeVars, sysVars>>

\* A peer's connection completes and waits in the accept queue of sockfd_
ConnArrives ==
    /\ listening
    /\ arrived < MaxConn
    /\ arrived' = arrived + 1
    /\ backlog' = backlog + 1
    /\ lEdge' = TRUE
    /\ UNCHANGED <<listening, nacc, nconn, clients_, epollFds, cready, cev, nch, csched,
                   cdone>>
    /\ UNCHANGED <<poolVars, chanVars, unregVars, timerVars, lifeVars, sysVars>>

\* A connection waiting in the accept queue is removed by a network error
\* before accept4 is called (accept(2)); the readiness already raised stays.
ConnWithdrawn ==
    /\ listening
    /\ backlog > 0
    /\ backlog' = backlog - 1
    /\ UNCHANGED <<listening, lEdge, nacc, nconn, clients_, epollFds, cready, cev, nch,
                   arrived, csched, cdone>>
    /\ UNCHANGED <<poolVars, chanVars, unregVars, timerVars, lifeVars, sysVars>>

\* epoll_wait reports EPOLLIN for sockfd_ : one notification for all that arrived
ListenerEpollWait ==
    /\ lEdge
    /\ lEdge' = FALSE
    /\ nacc' = nacc + 1
    /\ EpollSchedule(AcceptRoutine(nacc + 1))
    /\ UNCHANGED <<listening, backlog, nconn, clients_, epollFds, cready, cev, nch,
                   arrived, csched, cdone>>
    /\ UNCHANGED <<chanVars, unregVars, timerVars, lifeVars, sysVars>>

\* TCPServer::HandleFdEvent on worker w: one accept4, then Schedule of the
\* client's function with the new channel, or with -1 when accept4 failed
ServerHandleFdEvent(w) ==
    /\ wpc[w] = "run"
    /\ cur[w].k = "la"
    /\ IF backlog > 0
       THEN /\ backlog' = backlog - 1
            /\ nch' = nch + 1
            /\ ScheduleConnDone(w, 0, 0, nch + 1)
       ELSE /\ UNCHANGED <<backlog, nch>>
            /\ ScheduleConnDone(w, 0, -1, 0)
    /\ UNCHANGED <<listening, lEdge, nacc, nconn, clients_, epollFds, cready, cev, arrived,
                   cdone>>
    /\ UNCHANGED <<chanVars, unregVars, timerVars, lifeVars, sysVars>>

\* The client's connDoneFn_ runs on worker w
RunConnDone(w) ==
    /\ wpc[w] = "run"
    /\ cur[w].k = "cd"
    /\ cdone' = Append(cdone, cur[w].n)
    /\ finished' = finished \cup {cur[w]}
    /\ cur' = [cur EXCEPT ![w] = NoRoutine]
    /\ wpc' = [wpc EXCEPT ![w] = "pop"]
    /\ UNCHANGED <<nthreads, nextTh_, q, spc, sreg, br, nalloc, owner, how, thAffinity_,
                   nextId_, pushed, ran, snap, bsnap, ndispatch>>
    /\ UNCHANGED <<listening, backlog, lEdge, nacc, nconn, clients_, epollFds, cready, cev,
                   nch, arrived, csched>>
    /\ UNCHANGED <<chanVars, unregVars, timerVars, lifeVars, sysVars>>

\* TCPConnector::Connect: connect() is in progress, the client is kept under
\* lock_ and the fd is added to the demultiplexer's set for EPOLLOUT
Connect ==
    /\ nconn < MaxConn
    /\ nconn' = nconn + 1
    /\ clients_' = clients_ \cup {nconn + 1}
    /\ epollFds' = epollFds \cup {nconn + 1}
    /\ openFds' = openFds \cup {nconn + 1}
    /\ UNCHANGED <<listening, backlog, lEdge, nacc, cready, cev, nch, arrived, csched,
                   cdone>>
    /\ UNCHANGED <<poolVars, chanVars, unregVars, timerVars, lifeVars,
                   closes, fsnap, exitMain_, stopped, aborted, rr, il, bcast, cshut>>

\* The connect of fd ends: the kernel raises its events, once
ConnectEnds(fd, events) ==
    /\ fd \in epollFds
    /\ cready[fd] = {}
    /\ cev[fd] = {}
    /\ cready' = [cready EXCEPT ![fd] = events]
    /\ UNCHANGED <<listening, backlog, lEdge, nacc, nconn, clients_, epollFds, cev, nch,
                   arrived, csched, cdone>>
    /\ UNCHANGED <<poolVars, chanVars, unregVars, timerVars, lifeVars, sysVars>>

\* epoll_wait reports the events of fd
ConnectorEpollWait(fd) ==
    /\ fd \in epollFds
    /\ cready[fd] # {}
    /\ cev' = [cev EXCEPT ![fd] = cready[fd]]
    /\ cready' = [cready EXCEPT ![fd] = {}]
    /\ EpollSchedule(ConnectRoutine(fd))
    /\ UNCHANGED <<listening, backlog, lEdge, nacc, nconn, clients_, epollFds, nch,
                   arrived, csched, cdone>>
    /\ UNCHANGED <<chanVars, unregVars, timerVars, lifeVars, sysVars>>

\* TCPConnector::HandleFdEvent on worker w: epoll_->Remove(fd)
ConnectorRemove(w) ==
    /\ wpc[w] = "run"
    /\ cur[w].k = "ce"
    /\ epollFds' = epollFds \ {cur[w].n}
    /\ wpc' = [wpc EXCEPT ![w] = "erase"]
    /\ UNCHANGED <<nthreads, nextTh_, q, cur, spc, sreg, br, nalloc, owner, how,
                   thAffinity_, nextId_, pushed, ran, finished, snap, bsnap, ndispatch>>
    /\ UNCHANGED <<listening, backlog, lEdge, nacc, nconn, clients_, cready, cev, nch,
                   arrived, csched, cdone>>
    /\ UNCHANGED <<chanVars, unregVars, timerVars, lifeVars, sysVars>>

\* HandleFdEvent: under lock_ the client is copied and clients_.erase(it)
ConnectorErase(w) ==
    /\ wpc[w] = "erase"
    /\ clients_' = clients_ \ {cur[w].n}
    /\ wpc' = [wpc EXCEPT ![w] = "result"]
    /\ UNCHANGED <<nthreads, nextTh_, q, cur, spc, sreg, br, nalloc, owner, how,
                   thAffinity_, nextId_, pushed, ran, finished, snap, bsnap, ndispatch>>
    /\ UNCHANGED <<listening, backlog, lEdge, nacc, nconn, epollFds, cready, cev, nch,
                   arrived, csched, cdone>>
    /\ UNCHANGED <<chanVars, unregVars, timerVars, lifeVars, sysVars>>

ConnectedAnyOut(events) == "EPOLLOUT" \in events
\* if (events == EPOLLOUT)
Connected(events) == events = {"EPOLLOUT"}

\* HandleFdEvent: a channel and status 0 when connected, else status -1
ConnectorResult(w) ==
    /\ wpc[w] = "result"
    /\ IF Connected(cev[cur[w].n])
       THEN /\ nch' = nch + 1
            /\ ScheduleConnDone(w, cur[w].n, 0, nch + 1)
       ELSE /\ nch' = nch
            /\ ScheduleConnDone(w, cur[w].n, -1, 0)
    /\ UNCHANGED <<listening, backlog, lEdge, nacc, nconn, clients_, epollFds, cready, cev,
                   arrived, cdone>>
    /\ UNCHANGED <<chanVars, unregVars, timerVars, lifeVars, sysVars>>

\* -------------------------------------------------------------------- stop
\* pushes the sentinel whatever exitMain_ and the mailbox are
ThreadStopUnchecked(w) ==
    /\ w < nthreads
    /\ exitMain_' = [exitMain_ EXCEPT ![w] = TRUE]
    /\ q' = [q EXCEPT ![w] = InListPush(@, ThreadExitRoutine(w))]
    /\ pushed' = [pushed EXCEPT ![w] = Append(@, ThreadExitRoutine(w))]
    /\ wpc' = Signalled(w)
    /\ stopped' = [stopped EXCEPT ![w] = "join"]
    /\ UNCHANGED <<nthreads, nextTh_, cur, spc, sreg, br, nalloc, owner, how, thAffinity_,
                   nextId_, ran, finished, snap, bsnap, ndispatch>>
    /\ UNCHANGED <<chanVars, unregVars, timerVars, lifeVars, netVars,
                   openFds, closes, fsnap, aborted, rr, il, bcast, cshut>>

\* NonBlockingThread::Stop on worker w, called on the thread object, up to
\* pthread_join: INVARIANT(!exitMain_), exitMain_ = true,
\* INVARIANT(q_.IsEmpty()), Push(new ThreadExitRoutine()). A failed INVARIANT
\* ends the process.
ThreadStop(w) ==
    /\ w < nthreads
    /\ IF exitMain_[w] \/ ~InListIsEmpty(q[w])
       THEN /\ aborted' = TRUE
            /\ stopped' = [stopped EXCEPT ![w] = "abort"]
            /\ exitMain_' = [exitMain_ EXCEPT ![w] = TRUE]
            /\ UNCHANGED <<q, pushed, wpc>>
       ELSE /\ exitMain_' = [exitMain_ EXCEPT ![w] = TRUE]
            /\ q' = [q EXCEPT ![w] = InListPush(@, ThreadExitRoutine(w))]
            /\ pushed' = [pushed EXCEPT ![w] = Append(@, ThreadExitRoutine(w))]
            /\ wpc' = Signalled(w)
            /\ stopped' = [stopped EXCEPT ![w] = "join"]
            /\ aborted' = aborted
    /\ UNCHANGED <<nthreads, nextTh_, cur, spc, sreg, br, nalloc, owner, how, thAffinity_,
                   nextId_, ran, finished, snap, bsnap, ndispatch>>
    /\ UNCHANGED <<chanVars, unregVars, timerVars, lifeVars, netVars,
                   openFds, closes, fsnap, rr, il, bcast, cshut>>

\* pthread_join of that Stop returns: the worker's thread has ended
ThreadStopJoined(w) ==
    /\ stopped[w] = "join"
    /\ wpc[w] = "off"
    /\ stopped' = [stopped EXCEPT ![w] = "done"]
    /\ UNCHANGED <<poolVars, chanVars, unregVars, timerVars, lifeVars, netVars,
                   openFds, closes, fsnap, exitMain_, aborted, rr, il, bcast, cshut>>

\* ------------------------------------------------------------------ cursor
\* Sizes of threads_ tried, Schedule calls in one run, and how far below a
\* multiple of 2^16 a cursor starts.
RRThreads == 3
RRCalls == 6
RRBack == 2

\* Values of nextTh_ the calls start from: 0, and values shortly before the
\* low half and the whole cursor wrap.
RRCursors == {[hi |-> h, lo |-> l] : h \in {0, Half - 1},
                                    l \in {0} \cup ((Half - RRBack) .. (Half - 1))}

RRStart(n, c) == [n |-> n, c |-> c, seq |-> <<>>]

\* NonBlockingThreadPool::Schedule(ThreadRoutine * r) as one thread calls it:
\* threads_[nextTh_++ % threads_.size()]->Push(r)
RRSchedule ==
    /\ Len(rr.seq) < RRCalls
    /\ rr' = [rr EXCEPT !.seq = Append(@, U32Mod(rr.c, rr.n)), !.c = U32Inc(rr.c)]
    /\ UNCHANGED <<poolVars, chanVars, unregVars, timerVars, lifeVars, netVars,
                   openFds, closes, fsnap, exitMain_, stopped, aborted, il, bcast, cshut>>

\* ------------------------------------------------------------------ inlist
\* Push(t) on list l, by a caller whose call passes the ASSERTs
ILPush(l, t) ==
    /\ il.npush[l] < ILCalls
    /\ PushChecks(il, l, t)
    /\ il' = PtrPush(il, l, t)
    /\ UNCHANGED <<poolVars, chanVars, unregVars, timerVars, lifeVars, netVars,
                   openFds, closes, fsnap, exitMain_, stopped, aborted, rr, bcast, cshut>>

\* Pop on list l
ILPop(l) ==
    /\ PopChecks(il, l)
    /\ il' = PtrPop(il, l)
    /\ UNCHANGED <<poolVars, chanVars, unregVars, timerVars, lifeVars, netVars,
                   openFds, closes, fsnap, exitMain_, stopped, aborted, rr, bcast, cshut>>

\* t is in no list
Unlinked(t) == \A l \in 1 .. ILLists : t \notin il.in[l]

\* ------------------------------------------------------ connector shutdown
\* TCPConnector::Shutdown: lock_ is taken
ConnectorShutdown ==
    /\ cshut = "no"
    /\ nthreads > 0
    /\ cshut' = "run"
    /\ UNCHANGED <<poolVars, chanVars, unregVars, timerVars, lifeVars, netVars,
                   openFds, closes, fsnap, exitMain_, stopped, aborted, rr, il, bcast>>

\* Shutdown's loop for the pending client of fd: epoll_->Remove(fd) goes
\* through, the client's function is scheduled with status -1 and fd is closed
ConnectorShutdownClient(fd) ==
    /\ cshut = "run"
    /\ fd \in clients_ \cap openFds
    /\ fd \in epollFds
    /\ spc[ClientThread] = "idle"
    /\ epollFds' = epollFds \ {fd}
    /\ csched' = Append(csched, [from |-> fd, status |-> -1, ch |-> 0, events |-> cev[fd],
                                 inEpoll |-> FALSE, inClients |-> TRUE])
    /\ sreg' = [sreg EXCEPT ![ClientThread] = [r |-> ConnDoneRoutine(Len(csched) + 1),
                                                t |-> nextTh_, i |-> 0]]
    /\ spc' = [spc EXCEPT ![ClientThread] = "wr"]
    /\ openFds' = openFds \ {fd}
    /\ UNCHANGED <<nthreads, nextTh_, q, wpc, cur, br, nalloc, owner, how, thAffinity_,
                   nextId_, pushed, ran, finished, snap, bsnap, ndispatch>>
    /\ UNCHANGED <<listening, backlog, lEdge, nacc, nconn, clients_, cready, cev, nch,
                   arrived, cdone>>
    /\ UNCHANGED <<chanVars, unregVars, timerVars, lifeVars,
                   closes, fsnap, exitMain_, stopped, aborted, rr, il, bcast, cshut>>

\* Shutdown's loop on a client whose fd a HandleFdEvent has already taken out
\* of the demultiplexer's set: INVARIANT(ok) fails
ConnectorShutdownRemoveFails(fd) ==
    /\ cshut = "run"
    /\ fd \in clients_ \cap openFds
    /\ fd \notin epollFds
    /\ aborted' = TRUE
    /\ UNCHANGED <<poolVars, chanVars, unregVars, timerVars, lifeVars, netVars,
                   openFds, closes, fsnap, exitMain_, stopped, rr, il, bcast, cshut>>

\* the loop is over: clients_.clear(), epoll_ = NULL and lock_ is released
ConnectorShutdownEnds ==
    /\ cshut = "run"
    /\ clients_ \cap openFds = {}
    /\ clients_' = {}
    /\ cshut' = "done"
    /\ UNCHANGED <<listening, backlog, lEdge, nacc, nconn, epollFds, cready, cev, nch,
                   arrived, csched, cdone>>
    /\ UNCHANGED <<poolVars, chanVars, unregVars, timerVars, lifeVars,
                   openFds, closes, fsnap, exitMain_, stopped, aborted, rr, il, bcast>>

\* TCPConnector::HandleFdEvent on worker w for an fd that Shutdown has taken
\* out of the set: epoll_->Remove(fd) returns false and INVARIANT(ok) fails,
\* or epoll_ is NULL by then
ConnectorRemoveFails(w) ==
    /\ wpc[w] = "run"
    /\ cur[w].k = "ce"
    /\ cur[w].n \notin epollFds
    /\ aborted' = TRUE
    /\ UNCHANGED <<poolVars, chanVars, unregVars, timerVars, lifeVars, netVars,
                   openFds, closes, fsnap, exitMain_, stopped, rr, il, bcast, cshut>>

\* ------------------------------------------------- schedule during shutdown
\* NonBlockingThread::Stop on a mailbox that a concurrent Schedule has filled:
\* INVARIANT(q_.IsEmpty()) fails
StopAborts ==
    /\ shut.pc = "stop"
    /\ shut.i < nthreads
    /\ ~InListIsEmpty(q[shut.i])
    /\ aborted' = TRUE
    /\ UNCHANGED <<poolVars, chanVars, unregVars, timerVars, lifeVars, netVars,
                   openFds, closes, fsnap, exitMain_, stopped, rr, il, bcast, cshut>>

\* The worker that the Schedule call of c picked has been joined and deleted
\* by DestroyThreads, or threads_ has been cleared
TargetDeleted(c) ==
    IF shut.pc = "done" THEN TRUE
    ELSE shut.pc \in {"stop", "join"} /\ PickWorker(sreg[c].t) < shut.i

\* InQueue::Push on a deleted NonBlockingThread is a use of freed memory: the
\* process may end here, or the push may go through as MailboxPush has it
MailboxPushDeleted(c) ==
    /\ spc[c] = "push"
    /\ TargetDeleted(c)
    /\ aborted' = TRUE
    /\ UNCHANGED <<poolVars, chanVars, unregVars, timerVars, lifeVars, netVars,
                   openFds, closes, fsnap, exitMain_, stopped, rr, il, bcast, cshut>>

\* ------------------------------------------------------- shutdown by a routine
\* NonBlockingThreadPool::Shutdown called by the user routine that runs on
\* worker w, up to DestroyThreads; the routine stays in the call
ShutdownFromRoutine(w) ==
    /\ wpc[w] = "run"
    /\ cur[w].k = "u"
    /\ tpc = "read"
    /\ shut.pc = "no"
    /\ timers_ = {}
    /\ wpc' = [wpc EXCEPT ![w] = "shutdown"]
    /\ tpc' = "cancelled"
    /\ armed' = NoTime
    /\ shut' = [pc |-> "stop", i |-> 0]
    /\ UNCHANGED <<nthreads, nextTh_, q, cur, spc, sreg, br, nalloc, owner, how, thAffinity_,
                   nextId_, pushed, ran, finished, snap, bsnap, ndispatch>>
    /\ UNCHANGED <<wt, modZero, now, timers_, nt, deadline, texec, chanVars, unregVars,
                   netVars, sysVars>>

\* pthread_join of Stop on the calling thread itself returns EDEADLK and
\* INVARIANT(!status) fails; where pthread_join does not detect it, the thread
\* waits for itself and this step never comes
StopSelfJoin ==
    /\ shut.pc = "join"
    /\ wpc[shut.i] = "shutdown"
    /\ aborted' = TRUE
    /\ UNCHANGED <<poolVars, chanVars, unregVars, timerVars, lifeVars, netVars,
                   openFds, closes, fsnap, exitMain_, stopped, rr, il, bcast, cshut>>

\* ------------------------------------------------------------------- close
\* Close calls in one run.
MaxClose == 2

\* TCPChannel::Close: INVARIANT(!client_.h_), then shutdown(fd_) and close(fd_)
Close ==
    /\ client_.h_ = "none"
    /\ closes < MaxClose
    /\ closes' = closes + 1
    /\ UNCHANGED <<poolVars, chanVars, unregVars, timerVars, lifeVars, netVars,
                   openFds, fsnap, exitMain_, stopped, aborted, rr, il, bcast, cshut>>

\* ------------------------------------------------------------ specification
\* The steps every pool specification shares: Start, the tail of a dispatch,
\* and the worker loop.
PoolSteps ==
    \/ \E n \in 1 .. NumCores : Start(n)
    \/ \E th \in Threads : CursorWrite(th)
    \/ \E th \in Threads : MailboxPush(th)
    \/ \E c \in Clients : MailboxSignal(c)
    \/ \E w \in Workers : ThreadMainPop(w)
    \/ \E w \in Workers : ThreadMainRun(w)

BarrierSteps ==
    \/ \E c \in Clients : BarrierPush(c)
    \/ \E c \in Clients : BarrierSignal(c)
    \/ \E w \in Workers : BarrierRun(w)
    \/ \E w \in Workers : BarrierCursorRead(w)
    \/ \E w \in Workers : BarrierRunReturns(w)

\* Concurrent Schedule(ThreadRoutine *) calls; a blocked worker may also be
\* woken without a Signal.
PoolNext ==
    \/ PoolSteps
    \/ \E w \in Workers : WaitReturns(w)
    \/ \E c \in Clients : Schedule(c)

\* One thread's Schedule calls racing with another thread's
\* ScheduleBarrier(ThreadRoutine *) fan-out.
BarrierNext ==
    \/ PoolSteps
    \/ BarrierSteps
    \/ nalloc < MaxQueued /\ Schedule(NumCores)
    \/ ScheduleBarrier(NumCores + 1)

\* Schedule calls and the member-function overloads of ScheduleBarrier.
MemberBarrierNext ==
    \/ PoolSteps
    \/ \E c \in Clients : nalloc < MaxQueued /\ Schedule(c)
    \/ \E c \in Clients : nalloc < MaxQueued /\ ScheduleBarrierMember(c)

\* As PoolNext, with fewer routines.
PoolFairNext ==
    \/ PoolSteps
    \/ \E w \in Workers : WaitReturns(w)
    \/ \E c \in Clients : nalloc < MaxQueued /\ Schedule(c)

\* Schedule(obj, fn, args...) on NonBlockingLogic receivers.
AffinityNext ==
    \/ PoolSteps
    \/ \E o \in Logics : NonBlockingLogic(o)
    \/ \E c \in Clients, o \in Logics : ScheduleMember(c, o)

\* A client registers with a channel, reads and writes, and unregisters, while
\* the peer's bytes arrive and the demultiplexer dispatches.
UnregNext ==
    \/ \E n \in 1 .. NumCores : Start(n)
    \/ \E th \in Threads : CursorWrite(th)
    \/ \E th \in Threads : MailboxPush(th)
    \/ \E c \in Clients : MailboxSignal(c)
    \/ \E w \in Workers : ThreadMainPop(w)
    \/ RegisterHandle
    \/ \E size \in 1 .. MaxBufLen : ClientMayCall /\ Read(size)
    \/ ClientMayCall /\ ret.n < 1 /\ EnqueueWrite(1)
    \/ WritevEAGAIN
    \/ PeerData
    \/ EpollWait
    \/ \E status \in 1 .. MaxBufLen : ReadReads(status)
    \/ ReadNoData
    \/ UnregisterHandle
    \/ BarrierDue /\ ScheduleBarrier(ClientThread)
    \/ BarrierPush(ClientThread)
    \/ BarrierSignal(ClientThread)
    \/ \E w \in Workers : BarrierRun(w)
    \/ \E w \in Workers : BarrierCursorRead(w)
    \/ \E w \in Workers : BarrierRunReturns(w)
    \/ \E w \in Workers : RunHandleFdEvent(w)
    \/ \E w \in Workers : HandleFdEventReturns(w)
    \/ \E w \in Workers : WakeupReturns(w)
    \/ \E w \in Workers : RunReadDone(w)
    \/ \E w \in Workers : BarrierDoneClear(w)
    \/ \E w \in Workers : BarrierDoneInvoke(w)

\* Timers are set while the clock runs, none beyond the time the clock
\* reaches; the timekeeper hands the due routines to the pool.
TimerNext ==
    \/ \E n \in 1 .. NumCores : Start(n)
    \/ Tick
    \/ \E k \in 1 .. MaxMs : now + k * TickMs <= MaxTicks * TickMs /\ ScheduleIn(k * TickMs)
    \/ TimerRead
    \/ TimerFire
    \/ CursorWrite(TimeKeeperThread)
    \/ MailboxPush(TimeKeeperThread)
    \/ MailboxSignal(TimeKeeperThread)
    \/ \E w \in Workers : ThreadMainPop(w)
    \/ \E w \in Workers : RunTimed(w)

\* A started pool runs routines, a thread waits for its end, and it is shut down.
ShutdownNext ==
    \/ \E n \in 1 .. NumCores : Start(n)
    \/ shut.pc = "no" /\ Schedule(ClientThread)
    \/ CursorWrite(ClientThread)
    \/ MailboxPush(ClientThread)
    \/ MailboxSignal(ClientThread)
    \/ \E w \in Workers : ThreadMainPop(w)
    \/ \E w \in Workers : ThreadMainRun(w)
    \/ Wait
    \/ Wakeup
    \/ Shutdown
    \/ Stop
    \/ \E w \in Workers : RunThreadExit(w)
    \/ StopJoined
    \/ ShutdownReturns

\* The same with a Start of any thread count up to the cores.
StartNext ==
    \/ Start(0)
    \/ ScheduleNoThread(ClientThread)
    \/ ShutdownNext

\* The steps of the pool that the listener and the connector go through.
NetPoolSteps ==
    \/ \E n \in 1 .. NumCores : Start(n)
    \/ \E th \in Workers \cup {EpollThread} : CursorWrite(th)
    \/ \E th \in Workers \cup {EpollThread} : MailboxPush(th)
    \/ MailboxSignal(EpollThread)
    \/ \E w \in Workers : ThreadMainPop(w)
    \/ \E w \in Workers : BarrierCursorRead(w)
    \/ \E w \in Workers : WakeupReturns(w)
    \/ \E w \in Workers : RunConnDone(w)

\* A listener: connections arrive, the demultiplexer dispatches, workers accept.
ListenNext ==
    \/ NetPoolSteps
    \/ Listen
    \/ ConnArrives
    \/ ListenerEpollWait
    \/ \E w \in Workers : ServerHandleFdEvent(w)

\* The listener, with connections that go away before they are accepted.
BackoffNext ==
    \/ ListenNext
    \/ ConnWithdrawn

\* Stop called on the workers' thread objects while a client schedules
\* routines; nothing runs once an INVARIANT has failed.
StopNext ==
    \/ ~aborted /\ \E n \in 1 .. NumCores : Start(n)
    \/ ~aborted /\ nalloc < MaxQueued /\ Schedule(ClientThread)
    \/ ~aborted /\ CursorWrite(ClientThread)
    \/ ~aborted /\ MailboxPush(ClientThread)
    \/ ~aborted /\ MailboxSignal(ClientThread)
    \/ ~aborted /\ \E w \in Workers : ThreadMainPop(w)
    \/ ~aborted /\ \E w \in Workers : ThreadMainRun(w)
    \/ ~aborted /\ \E w \in Workers : ThreadStop(w)
    \/ ~aborted /\ \E w \in Workers : RunThreadExit(w)
    \/ ~aborted /\ \E w \in Workers : ThreadStopJoined(w)

\* The channel with a client that registers, reads and unregisters, and
\* read() calls that fail.
ReadNext ==
    \/ UnregNext
    \/ ReadFails

\* Push and Pop calls on InList objects with elements that are in no list.
InListNext ==
    \/ \E l \in 1 .. ILLists, t \in 1 .. ILElems : Unlinked(t) /\ ILPush(l, t)
    \/ \E l \in 1 .. ILLists : ~PtrIsEmpty(il, l) /\ ILPop(l)

\* Push calls with any element that passes the ASSERTs of Push.
InListCheckedNext ==
    \/ \E l \in 1 .. ILLists, t \in 1 .. ILElems : ILPush(l, t)
    \/ \E l \in 1 .. ILLists : ILPop(l)

\* Shutdown while a client thread goes on scheduling routines.
ShutdownRaceNext ==
    \/ ~aborted /\ \E n \in 1 .. NumCores : Start(n)
    \/ ~aborted /\ shut.pc # "done" /\ Schedule(ClientThread)
    \/ ~aborted /\ CursorWrite(ClientThread)
    \/ ~aborted /\ shut.pc # "done" /\ MailboxPush(ClientThread)
    \/ ~aborted /\ MailboxPushDeleted(ClientThread)
    \/ ~aborted /\ shut.pc # "done" /\ MailboxSignal(ClientThread)
    \/ ~aborted /\ \E w \in Workers : ThreadMainPop(w)
    \/ ~aborted /\ \E w \in Workers : ThreadMainRun(w)
    \/ ~aborted /\ Shutdown
    \/ ~aborted /\ Stop
    \/ ~aborted /\ StopAborts
    \/ ~aborted /\ \E w \in Workers : RunThreadExit(w)
    \/ ~aborted /\ StopJoined
    \/ ~aborted /\ ShutdownReturns

\* A routine on a worker calls Shutdown while a client schedules routines.
SelfShutdownNext ==
    \/ ~aborted /\ \E n \in 1 .. NumCores : Start(n)
    \/ ~aborted /\ shut.pc = "no" /\ Schedule(ClientThread)
    \/ ~aborted /\ CursorWrite(ClientThread)
    \/ ~aborted /\ MailboxPush(ClientThread)
    \/ ~aborted /\ MailboxSignal(ClientThread)
    \/ ~aborted /\ \E w \in Workers : ThreadMainPop(w)
    \/ ~aborted /\ \E w \in Workers : ThreadMainRun(w)
    \/ ~aborted /\ \E w \in Workers : ShutdownFromRoutine(w)
    \/ ~aborted /\ Stop
    \/ ~aborted /\ \E w \in Workers : RunThreadExit(w)
    \/ ~aborted /\ StopJoined
    \/ ~aborted /\ StopSelfJoin

\* A channel without a registered client, and Close calls on it.
CloseNext ==
    \/ ChanNext
    \/ Close

\* A connector: Connect calls, the connects end, the results are scheduled.
ConnectNext ==
    \/ NetPoolSteps
    \/ Connect
    \/ \E fd \in 1 .. MaxConn, events \in ConnectEvents : ConnectEnds(fd, events)
    \/ \E fd \in 1 .. MaxConn : ConnectorEpollWait(fd)
    \/ \E w \in Workers : ConnectorRemove(w)
    \/ \E w \in Workers : ConnectorErase(w)
    \/ \E w \in Workers : ConnectorResult(w)

\* A connector that is shut down while connects are pending. lock_ keeps
\* Connect's insert and HandleFdEvent's erase out while Shutdown runs.
ConnectShutdownNext ==
    \/ ~aborted /\ NetPoolSteps
    \/ ~aborted /\ CursorWrite(ClientThread)
    \/ ~aborted /\ MailboxPush(ClientThread)
    \/ ~aborted /\ MailboxSignal(ClientThread)
    \/ ~aborted /\ cshut = "no" /\ Connect
    \/ ~aborted /\ \E fd \in 1 .. MaxConn, events \in ConnectEvents : ConnectEnds(fd, events)
    \/ ~aborted /\ \E fd \in 1 .. MaxConn : ConnectorEpollWait(fd)
    \/ ~aborted /\ \E w \in Workers : cur[w].n \in epollFds /\ ConnectorRemove(w)
    \/ ~aborted /\ \E w \in Workers : ConnectorRemoveFails(w)
    \/ ~aborted /\ \E w \in Workers : cshut # "run" /\ ConnectorErase(w)
    \/ ~aborted /\ \E w \in Workers : ConnectorResult(w)
    \/ ~aborted /\ ConnectorShutdown
    \/ ~aborted /\ \E fd \in 1 .. MaxConn : ConnectorShutdownClient(fd)
    \/ ~aborted /\ \E fd \in 1 .. MaxConn : ConnectorShutdownRemoveFails(fd)
    \/ ~aborted /\ ConnectorShutdownEnds

InitOther == PoolInit /\ ChanInit /\ UnregInit /\ TimerInit /\ LifeInit /\ NetInit /\ SysInit

Init == InitOther /\ rr = RRStart(1, U32Zero)

\* a pool of n workers whose cursor has reached c
CursorInit == InitOther /\ \E n \in 1 .. RRThreads, c \in RRCursors : rr = RRStart(n, c)

\* The threads are scheduled by the operating system: a thread that can take
\* its next step does take it. Nothing makes a client call Schedule again, and
\* nothing makes Wait return without a Signal.
PoolFairness ==
    /\ \A th \in Threads : WF_vars(CursorWrite(th)) /\ WF_vars(MailboxPush(th))
    /\ \A c \in Clients : WF_vars(MailboxSignal(c))
    /\ \A w \in Workers : WF_vars(ThreadMainPop(w)) /\ WF_vars(ThreadMainRun(w))

\* The clock moves, and the timekeeper's thread and the workers take the steps
\* they can take. Nothing makes a client call ScheduleIn.
TimerFairness ==
    /\ WF_vars(Tick) /\ WF_vars(TimerRead) /\ WF_vars(TimerFire)
    /\ WF_vars(CursorWrite(TimeKeeperThread)) /\ WF_vars(MailboxPush(TimeKeeperThread))
    /\ WF_vars(MailboxSignal(TimeKeeperThread))
    /\ \A w \in Workers : WF_vars(ThreadMainPop(w)) /\ WF_vars(RunTimed(w))

SpecPool == Init /\ [][PoolNext]_vars
SpecPoolFair == Init /\ [][PoolFairNext]_vars /\ PoolFairness
SpecBarrier == Init /\ [][BarrierNext]_vars
SpecMemberBarrier == Init /\ [][MemberBarrierNext]_vars
SpecAffinity == Init /\ [][AffinityNext]_vars
SpecChan == Init /\ [][ChanNext]_vars
SpecUnreg == Init /\ [][UnregNext]_vars
SpecTimer == Init /\ [][TimerNext]_vars
SpecShutdown == Init /\ [][ShutdownNext]_vars
SpecStart == Init /\ [][StartNext]_vars
SpecListen == Init /\ [][ListenNext]_vars
SpecConnect == Init /\ [][ConnectNext]_vars
SpecTimerFair == Init /\ [][TimerNext]_vars /\ TimerFairness

SpecClose == Init /\ [][CloseNext]_vars

SpecStop == Init /\ [][StopNext]_vars

SpecRead == Init /\ [][ReadNext]_vars

SpecCursor == CursorInit /\ [][RRSchedule]_vars

SpecInList == Init /\ [][InListNext]_vars
SpecInListChecked == Init /\ [][InListCheckedNext]_vars

SpecSelfShutdown == Init /\ [][SelfShutdownNext]_vars

SpecShutdownRace == Init /\ [][ShutdownRaceNext]_vars

SpecConnectShutdown == Init /\ [][ConnectShutdownNext]_vars

SpecBackoff == Init /\ [][BackoffNext]_vars

\* ------------------------------------------------------------------ claims
IsPrefix(a, b) == Len(a) <= Len(b) /\ SubSeq(b, 1, Len(a)) = a
\* The places of routine r in a per-worker history h.
Places(h, r) == UNION {{<<w, i>> : i \in {j \in 1 .. Len(h[w]) : h[w][j] = r}} : w \in Workers}
Pushes(r) == Cardinality(Places(pushed, r))
Runs(r) == Cardinality(Places(ran, r))
Started(r) == Runs(r) > 0
\* The Schedule call for r has not reached its Push yet.
InCall(r) == \E th \in Threads : spc[th] \in {"rd", "wr", "push"} /\ sreg[th].r = r

\* C1: every worker runs the routines of its mailbox in the order Push appended
\* them, and starts a routine only after the one it popped before has returned.
C1_PushOrder ==
    \A w \in Workers :
        /\ IsPrefix(ran[w], pushed[w])
        /\ \A i \in 1 .. Len(ran[w]) : i < Len(ran[w]) => ran[w][i] \in finished

\* Two routines were queued on one worker, which ran both, and a third waits.
C1_Witness ==
    \E w \in Workers : Len(ran[w]) >= 2 /\ Len(pushed[w]) >= 3 /\ Len(q[w]) = 1

\* C2, in every state: a routine handed to Schedule is, once the call has pushed
\* it, in the push history exactly once, and it is either still linked in that
\* one mailbox or was started exactly once by that worker.
C2_Once ==
    \A n \in 1 .. nalloc :
        LET r == URoutine(n)
        IN /\ Pushes(r) = (IF InCall(r) THEN 0 ELSE 1)
           /\ Runs(r) <= 1
           /\ ~InCall(r) => (r \in Queued) # Started(r)
           /\ r \in finished => Started(r)

\* C2: exactly once, under every interleaving of the racing cursor updates, and
\* every routine handed to Schedule is eventually run to completion.
C2_ExactlyOnce ==
    /\ []C2_Once
    /\ \A n \in 1 .. MaxRoutines : (nalloc >= n) ~> (URoutine(n) \in finished)

\* Two Schedule calls read the same cursor value (an increment was lost), a
\* worker blocked on its empty mailbox meanwhile, and every routine has run.
C2_Witness ==
    /\ nthreads = 2
    /\ nalloc = MaxQueued
    /\ nextTh_.lo < nalloc
    /\ \A n \in 1 .. nalloc : URoutine(n) \in finished
    /\ \E w \in Workers : wpc[w] = "wait" /\ Len(ran[w]) > 0

\* C3: the barrier's routine is handed to Schedule once, by the helper that
\* brings the counter to zero after all the helpers have run, and it starts
\* only after every routine queued at the ScheduleBarrier call has completed.
C3_Barrier ==
    /\ ndispatch <= 1
    /\ Pushes(BarrierCb) <= ndispatch
    /\ Runs(BarrierCb) <= 1
    /\ ndispatch = 1 =>
          /\ \A i \in 0 .. (nthreads - 1) : Started(HelperRoutine(i))
          /\ br.pendingCalls_ = 0
    /\ (\A i \in 0 .. (nthreads - 1) : HelperRoutine(i) \in finished) /\ nthreads > 0 =>
          ndispatch = 1 /\ Pushes(BarrierCb) = 1
    /\ Started(BarrierCb) => bsnap \subseteq finished

\* A barrier on a full pool, called while routines were queued, has run its routine.
C3_Witness ==
    /\ nthreads = NumCores
    /\ Cardinality(bsnap) = MaxQueued
    /\ BarrierCb \in finished

\* C4: a method scheduled by ScheduleBarrier(obj, method, args...) starts only
\* after every routine queued at the moment of the call has completed.
C4_MemberBarrier ==
    \A n \in 1 .. nalloc :
        how[n] = "mbarrier" /\ Started(URoutine(n)) => snap[n] \subseteq finished

\* C5: a routine whose receiver carries affinity k is pushed to workers[k].
C5_AffinityRouting ==
    \A n \in 1 .. nalloc : \A p \in Places(pushed, URoutine(n)) :
        how[n] = "member" /\ thAffinity_[owner[n]] < nthreads
        => p[1] = thAffinity_[owner[n]]

\* C6: two callbacks of one object with an affinity never execute at the same
\* time, and a callback scheduled while another of the object was queued does
\* not start before that one.
C6_AffinitySerial ==
    /\ \A w1 \in Workers, w2 \in Workers :
          /\ w1 # w2
          /\ wpc[w1] = "run" /\ wpc[w2] = "run"
          /\ cur[w1].k = "u" /\ cur[w2].k = "u"
          /\ how[cur[w1].n] = "member" /\ how[cur[w2].n] = "member"
          => owner[cur[w1].n] # owner[cur[w2].n]
    /\ \A n \in 1 .. nalloc : \A r \in snap[n] :
          /\ how[n] = "member" /\ r.k = "u" /\ owner[r.n] = owner[n]
          /\ Started(URoutine(n))
          => Started(r)

\* C7: the write backlog never holds more than DEFAULT_WRITE_BACKLOG buffers,
\* after any sequence of EnqueueWrite calls and EPOLLOUT drains.
C7_BacklogBound == Len(wbuf_) <= DEFAULT_WRITE_BACKLOG

\* C8: while the socket has taken no byte and no call has failed, each of the
\* first DEFAULT_WRITE_BACKLOG EnqueueWrite calls returns >= 0 and the next one
\* returns -EBUSY.
C8_BusyAtLimit ==
    sent = <<>> /\ nfail = 0 /\ ~wdrain.on =>
        /\ (1 <= ret.n /\ ret.n <= DEFAULT_WRITE_BACKLOG => ret.v >= 0)
        /\ (ret.n = DEFAULT_WRITE_BACKLOG + 1 => ret.v = -EBUSY)

\* C9: with no failing read() or writev(), the bytes handed to the socket and
\* the bytes still in the backlog are together the accepted buffers in call
\* order; the bytes of the completed reads, of the pending read and of the
\* socket are together the bytes handed to the socket; and a completed read
\* holds as many bytes as its buffer's size, the last ones delivered.
C9_ByteExact ==
    nfail = 0 =>
        /\ sent \o Flatten(wbuf_) = enq
        /\ delivered \o rctx_.data \o wire = sent
        /\ rdone # NoCompletion =>
              /\ Len(rdone.data) = rdone.size
              /\ rdone.data = SubSeq(delivered, Len(delivered) - rdone.size + 1,
                                     Len(delivered))

\* two buffers accepted, the second one written in part, and a read just
\* completed whose bytes reach into the second buffer
C9_Witness ==
    /\ nfail = 0
    /\ ret.n = 2
    /\ Len(enq) = 2 * MaxBufLen
    /\ Len(wbuf_) = 1
    /\ Len(Head(wbuf_)) < MaxBufLen
    /\ rdone # NoCompletion
    /\ Len(delivered) > MaxBufLen

\* C10: a read-done callback with a status >= 0 has the size of the buffer
\* given to Read as its status and carries that buffer, filled with the bytes
\* delivered last.
C10_FullReads ==
    rcb.status >= 0 =>
        /\ rcb.status = rcb.size
        /\ Len(rcb.data) = rcb.size
        /\ rcb.data = SubSeq(delivered, Len(delivered) - rcb.size + 1, Len(delivered))

\* a read-done callback for a buffer of the largest size, made by an EPOLLIN
\* drain after Read itself could not fill the buffer
C10_Witness ==
    /\ rcb.status = MaxBufLen
    /\ rcb.size = MaxBufLen
    /\ rdone.sync = FALSE
    /\ rctx_ = NoRead

\* C11: the handler of a Read is called once at most, and not at all when
\* Read itself filled the buffer; a read completes only with its buffer full.
C11_ReadOnce ==
    /\ hcalls <= 1
    /\ rdone # NoCompletion =>
          /\ Len(rdone.data) = rdone.size
          /\ rdone.sync => hcalls = 0

\* C14: once a read() has failed other than by EAGAIN the handler has been
\* called once, and no drain of a later EPOLLIN event reads for that Read.
C14_ReadErrorTerminal ==
    rerr => hcalls = 1 /\ ~rdrain.on

C13_NoLateCallback == ~late

\* where the n-th timed routine is: in the timer set, in the timekeeper's call
\* of Schedule, in a mailbox, on a worker, or started
TimerPlaces(n) ==
    (IF \E e \in timers_ : e.r_ = TimedRoutine(n) THEN 1 ELSE 0)
    + (IF spc[TimeKeeperThread] \in {"wr", "push"} /\ sreg[TimeKeeperThread].r = TimedRoutine(n)
       THEN 1 ELSE 0)
    + Cardinality({<<w, i>> \in Workers \X (1 .. MaxTimers) :
                      i <= Len(q[w]) /\ q[w][i] = TimedRoutine(n)})
    + Cardinality({w \in Workers : cur[w] = TimedRoutine(n)})
    + Cardinality({i \in DOMAIN texec : texec[i].r = n})

\* C15, in every state: a timed routine does not start before the clock of its
\* ScheduleIn call plus ms; it is in one place, so started once at most; its
\* event carries its deadline, and while the timekeeper is in read() the
\* timerfd is armed no later than any event of the set.
C15_TimerSafe ==
    /\ \A i \in DOMAIN texec : texec[i].at >= deadline[texec[i].r]
    /\ \A n \in 1 .. nt : TimerPlaces(n) = 1
    /\ \A e \in timers_ :
          /\ e.time_.tv_sec * MsPerSec + e.time_.tv_nsec = deadline[e.r_.n]
          /\ tpc = "read" => armed # NoTime /\ ~TimeLess(e.time_, armed)

\* C15: for every ScheduleIn(ms, f) at time t, f does not start before t + ms
\* and is executed exactly once after it.
C15_TimerDeadline ==
    /\ []C15_TimerSafe
    /\ \A n \in 1 .. MaxTimers : (nt >= n) ~> (Cardinality({i \in DOMAIN texec : texec[i].r = n}) = 1)

C15_Witness ==
    /\ Len(texec) = MaxTimers
    /\ \E i \in DOMAIN texec : texec[i].at = deadline[texec[i].r] /\ texec[i].at >= MsPerSec

\* C16: the timed routines start in the order of their deadlines.
C16_DeadlineOrder ==
    \A i, j \in DOMAIN texec :
        i < j => deadline[texec[i].r] <= deadline[texec[j].r]

\* C17: when Shutdown has returned no thread is left blocked in Wait.
C17_ShutdownReleases == shut.pc = "done" => wt # "blocked"

\* C18: a started pool has a worker, and no Schedule call takes the remainder
\* by the size of an empty threads_.
C18_StartZeroRejected ==
    /\ (tpc = "read" /\ shut.pc = "no") => nthreads > 0
    /\ ~modZero

\* A HandleFdEvent routine of the listener is on its way or running.
AcceptInFlight ==
    \/ spc[EpollThread] # "idle"
    \/ \E r \in Queued : r.k = "la"
    \/ \E w \in Workers : cur[w].k = "la"

\* C19: a connection pending on the listening socket has a notification or an
\* event routine ahead that accepts it.
C19_BurstAccepted == backlog > 0 => (lEdge \/ AcceptInFlight)

\* C20: when the connector schedules the result of a Connect the fd is out of
\* the demultiplexer's set and of clients_ ; one result per fd; status 0 and a
\* new channel exactly for the events EPOLLOUT alone, else -1 and no channel.
C20_ConnectResult ==
    /\ \A i \in DOMAIN csched :
          /\ ~csched[i].inEpoll
          /\ ~csched[i].inClients
          /\ csched[i].status = (IF csched[i].events = {"EPOLLOUT"} THEN 0 ELSE -1)
          /\ (csched[i].status = 0) = (csched[i].ch # 0)
    /\ \A i, j \in DOMAIN csched :
          i # j => /\ csched[i].from # csched[j].from
                   /\ csched[i].ch # csched[j].ch \/ csched[i].ch = 0
    /\ \A fd \in 1 .. MaxConn :
          ConnectRoutine(fd) \in finished =>
              /\ \E i \in DOMAIN csched : csched[i].from = fd
              /\ fd \notin epollFds \cup clients_

C20_Witness ==
    /\ Len(cdone) = MaxConn
    /\ \E i, j \in DOMAIN csched :
          /\ csched[i].status = 0
          /\ csched[j].status = -1
          /\ "EPOLLOUT" \in csched[j].events

\* C23: a write-done callback whose status is not negative carries a status
\* greater than 0 and at most the size of the buffer it completes.
C23_WriteDoneBytes ==
    \A i \in DOMAIN wcb :
        wcb[i].status >= 0 => wcb[i].status > 0 /\ wcb[i].status <= wcb[i].size

\* C24: an EnqueueWrite call that is not rejected first appends its buffer at
\* the back of the backlog, with nothing written yet, and returns the bytes its
\* own drain wrote when the backlog was empty before the call, 0 otherwise.
C24_EnqueueReturn ==
    [][/\ (~wdrain.on /\ wdrain'.on /\ wdrain'.caller = "enqueue") =>
              /\ Len(wbuf_') = Len(wbuf_) + 1
              /\ SubSeq(wbuf_', 1, Len(wbuf_)) = wbuf_
              /\ sent' = sent
       /\ (wdrain.on /\ wdrain.caller = "enqueue" /\ ret'.n = ret.n + 1) =>
              ret'.v = IF wdrain.isasync THEN 0 ELSE wdrain.bytesWritten]_vars

\* C25: a writev that writes k > 0 bytes takes exactly the first k bytes off
\* the backlog: the buffers those bytes cover are popped from the front in
\* order, the buffer they cover in part loses that prefix and stays at the
\* front, and the first byte left is the next byte to send.
C25_TrimExact ==
    [][sent' # sent =>
          LET k == Len(sent') - Len(sent)
              all == Flatten(wbuf_)
              covered(j) == Len(Flatten(SubSeq(wbuf_, 1, j)))
          IN /\ k > 0
             /\ Flatten(wbuf_') = SubSeq(all, k + 1, Len(all))
             /\ \E j \in 0 .. Len(wbuf_) :
                   /\ covered(j) <= k
                   /\ IF covered(j) = k
                      THEN wbuf_' = SubSeq(wbuf_, j + 1, Len(wbuf_))
                      ELSE /\ j < Len(wbuf_)
                           /\ k - covered(j) < Len(wbuf_[j + 1])
                           /\ wbuf_' = <<SubSeq(wbuf_[j + 1], k - covered(j) + 1,
                                                Len(wbuf_[j + 1]))>>
                                       \o SubSeq(wbuf_, j + 2, Len(wbuf_))
             /\ wbuf_' # <<>> => Head(wbuf_') # <<>> /\ Head(wbuf_')[1] = Len(sent') + 1]_vars

\* The first writev of a 2-byte buffer wrote 1 byte: the residual byte is at
\* the front and the drain goes on.
C25_Witness ==
    /\ wdrain.on
    /\ ret.n = 0
    /\ Len(enq) = 2
    /\ Len(sent) = 1
    /\ wbuf_ = <<<<2>>>>

\* C26: an accept4 that fails with EAGAIN is not surfaced: every result the
\* listener hands to Schedule carries status 0 and an accepted channel.
C26_BackoffSilent ==
    \A i \in DOMAIN csched :
        csched[i].from = 0 => csched[i].status = 0 /\ csched[i].ch # 0

\* C21: once the connect callback of a failed Connect has been delivered,
\* with its negative status, the socket fd of that Connect is closed.
C21_FailureCloses ==
    \A i \in DOMAIN cdone :
        LET res == csched[cdone[i]]
        IN res.from # 0 /\ ~Connected(res.events) =>
              res.status < 0 /\ res.from \notin openFds

\* C22: close(fd_) is reached at most once on a channel with no registered
\* client; a second Close call stops at its invariant before it.
C22_CloseOnce == client_.h_ = "none" => closes <= 1

\* C27: when the barrier's routine starts, every routine that was in a mailbox
\* when the last helper was pushed has started.
C27_FanOutOrder == Started(BarrierCb) => \A r \in fsnap : Started(r)

\* C28: after every ScheduleIn call, and whenever the timekeeper's thread goes
\* back to read(fd_), the timerfd is armed to the time of an event no event of
\* the set is earlier than, and it is disarmed exactly when the set is empty.
ArmedToMin ==
    IF timers_ = {}
    THEN armed = NoTime
    ELSE /\ armed # NoTime
         /\ \E e \in timers_ : e.time_ = armed
         /\ \A f \in timers_ : ~TimeLess(f.time_, armed)

C28_ArmedToMin == [][(nt' # nt \/ tpc' = "read") => ArmedToMin']_vars

\* A second event with an earlier time was inserted and the timerfd is armed
\* to it.
C28_Witness ==
    /\ nt = 2
    /\ \E e, f \in timers_ :
          /\ e.r_ = TimedRoutine(1)
          /\ f.r_ = TimedRoutine(2)
          /\ TimeLess(f.time_, e.time_)
          /\ armed = f.time_

\* C29: the step that takes an event out of the timer set takes one whose
\* deadline the clock has reached, hands its routine to Schedule in that step,
\* leaves no event with an earlier deadline behind and follows no hand-over of
\* a later deadline; an event out of the set never comes back, no timed routine
\* is pushed twice, and when the handling ends no event left is due.
HandedOver == {n \in 1 .. nt : \A e \in timers_ : e.r_ # TimedRoutine(n)}

C29_HandOver ==
    [][/\ \A e \in timers_ \ timers_' :
             /\ timers_ \ timers_' = {e}
             /\ deadline[e.r_.n] <= now
             /\ sreg'[TimeKeeperThread].r = e.r_
             /\ spc'[TimeKeeperThread] # "idle"
             /\ \A f \in timers_' : deadline[e.r_.n] <= deadline[f.r_.n]
             /\ \A n \in HandedOver : deadline[n] <= deadline[e.r_.n]
       /\ \A n \in HandedOver : n \in HandedOver'
       /\ \A n \in 1 .. MaxTimers : Pushes(TimedRoutine(n)) <= 1
       /\ (tpc \in {"woken", "due"} /\ tpc' = "read") =>
             \A f \in timers_' : deadline[f.r_.n] > now]_vars

\* Two events with different deadlines have both been handed over.
C29_Witness ==
    /\ nt = 2
    /\ timers_ = {}
    /\ deadline[1] # deadline[2]
    /\ Pushes(TimedRoutine(1)) = 1
    /\ Pushes(TimedRoutine(2)) = 1

\* C30: a Stop call on a worker whose mailbox holds a routine, or on which Stop
\* was called before, ends the process and pushes nothing; any other Stop call
\* pushes the one exit sentinel of that worker. A worker's thread ends only by
\* running its sentinel, which is then the last routine it ran, and Stop has
\* returned only when that thread has ended.
StopCalled(w) == stopped'[w] # stopped[w] /\ stopped'[w] \in {"join", "abort"}

C32_ReadCtx ==
    /\ rctx_.size >= 0
    /\ rctx_.size = 0 => rctx_ = NoRead /\ ~rdrain.on
    /\ rctx_.size > 0 => 0 <= rctx_.bytesRead /\ rctx_.bytesRead < rctx_.size
    /\ Len(rctx_.data) = rctx_.bytesRead

\* A read of 2 bytes has 1 byte and a read() call has failed.
C32_Witness ==
    /\ rctx_.size = 2
    /\ rctx_.bytesRead = 1
    /\ nfail = 1

\* C33: the step in which a writev fails with an errno other than EAGAIN makes
\* one write-done callback, of status -1, whoever started the drain.
C33_WriteErrorSurfaced ==
    [][(wdrain.on /\ ~wdrain'.on /\ nfail' = nfail + 1) =>
           Len(wcb') = 1 /\ wcb'[1].status = -1]_vars

\* C34: once the pool runs, the affinity an object recorded at construction
\* is the index of one of the pool's workers.
C34_AffinityInRange ==
    \A o \in Logics :
        (thAffinity_[o] # -1 /\ nthreads > 0) => thAffinity_[o] \in 0 .. (nthreads - 1)

\* C35: one thread's successive Schedule calls go round the workers: each
\* call takes the worker after the one before it, so that any N consecutive
\* calls take N different workers, whatever the cursor's value.
C35_RoundRobin ==
    /\ \A j \in 1 .. (Len(rr.seq) - 1) : rr.seq[j + 1] = (rr.seq[j] + 1) % rr.n
    /\ \A j \in 1 .. (Len(rr.seq) - rr.n + 1) :
          {rr.seq[i] : i \in j .. (j + rr.n - 1)} = 0 .. (rr.n - 1)

\* The elements reached from head_ of list l by next_, at most ILElems + 1.
RECURSIVE Walk(_, _)
Walk(p, k) == IF p = Null \/ k = 0 THEN <<>> ELSE <<p>> \o Walk(il.next_[p], k - 1)

Chain(l) == Walk(il.head_[l], ILElems + 1)

\* C36: with Push calls that pass the checks of Push, no element is twice in
\* a list or in two lists, and following next_ from head_ ends.
C36_PushChecks ==
    /\ \A l \in 1 .. ILLists :
          /\ Len(Chain(l)) <= ILElems
          /\ \A i, j \in DOMAIN Chain(l) : i # j => Chain(l)[i] # Chain(l)[j]
    /\ \A l1, l2 \in 1 .. ILLists :
          l1 # l2 => \A i \in DOMAIN Chain(l1), j \in DOMAIN Chain(l2) :
                         Chain(l1)[i] # Chain(l2)[j]

\* C37: after Push and Pop calls with elements that were in no list, head_ is
\* NULL exactly when tail_ is, the ends have no outer link, next_ from head_
\* visits the elements pushed and not popped and ends at tail_, prev_ is the
\* inverse of next_, an element in no list has no link, and the list is
\* empty exactly when as many elements were popped as pushed.
C37_InListShape ==
    /\ \A l \in 1 .. ILLists :
          LET c == Chain(l)
          IN /\ (il.head_[l] = Null) <=> (il.tail_[l] = Null)
             /\ il.head_[l] # Null => il.prev_[il.head_[l]] = Null
             /\ il.tail_[l] # Null => il.next_[il.tail_[l]] = Null
             /\ Len(c) = Cardinality(il.in[l])
             /\ {c[i] : i \in DOMAIN c} = il.in[l]
             /\ c # <<>> => c[Len(c)] = il.tail_[l]
             /\ \A i \in 1 .. (Len(c) - 1) : il.prev_[c[i + 1]] = c[i]
             /\ PtrIsEmpty(il, l) <=> (il.npush[l] = il.npop[l])
    /\ \A e \in 1 .. ILElems : Unlinked(e) => il.next_[e] = Null /\ il.prev_[e] = Null

\* A list holds two elements after one was popped from it and pushed to the
\* other list.
C37_Witness ==
    \E l, m \in 1 .. ILLists :
        /\ l # m
        /\ Len(Chain(l)) = 2
        /\ il.npop[l] >= 1
        /\ Len(Chain(m)) = 1
        /\ il.npop[m] = 0

\* C38: a thread that calls Wait after condExit_ has been broadcast is not
\* left blocked in condExit_.Wait.
C38_WaitAfterBroadcast == bcast => wt # "blocked"

\* C39: a Shutdown called by a routine on a worker fails no INVARIANT and
\* never joins the thread that is calling it.
C39_SelfShutdown ==
    /\ ~aborted
    /\ ~(shut.pc = "join" /\ wpc[shut.i] = "shutdown")

\* Shutdown, called from the routine on worker 1, has stopped and joined
\* worker 0 and now joins worker 1, its own thread.
C39_SelfJoin ==
    /\ shut.pc = "join"
    /\ shut.i = 1
    /\ wpc[1] = "shutdown"
    /\ wpc[0] = "off"

\* C31: during Shutdown no user routine is pushed to a worker behind its exit
\* sentinel or to a worker already joined, so that a joined worker's mailbox
\* is empty.
C31_NoPushAfterSentinel ==
    /\ \A w \in Workers : \A i, j \in 1 .. Len(pushed[w]) :
           (i < j /\ pushed[w][i].k = "x") => pushed[w][j].k # "u"
    /\ \A w \in Workers :
           (shut.pc = "done" \/ (shut.pc \in {"stop", "join"} /\ w < shut.i))
               => InListIsEmpty(q[w])

\* C40: no INVARIANT of the connector fails, no Connect gets two connect-done
\* callbacks, and no HandleFdEvent routine runs for an fd that is out of the
\* demultiplexer's set.
C40_ConnectorShutdown ==
    /\ ~aborted
    /\ \A i, j \in DOMAIN csched : i # j => csched[i].from # csched[j].from
    /\ \A w \in Workers :
           (wpc[w] = "run" /\ cur[w].k = "ce") => cur[w].n \in epollFds

====
